---- MODULE Spec2Model ----
(***************************************************************************)
(* Bookish Library v2: the DataStore (js/data.js), the book validation     *)
(* rules (js/utils.js), the duplicate workflow (js/duplicates.js), the     *)
(* book form (js/ui.js), the lookup service (js/api.js), the barcode       *)
(* capture session (js/barcode.js) and the handlers of the controller      *)
(* (js/app.js), as a state machine.                                        *)
(*                                                                         *)
(* JavaScript strings are sequences of one-character strings, so that      *)
(* trim(), toLowerCase(), includes() and replace(/[-\s]/g,'') are          *)
(* computed and not assumed.  `undefined` is the one-element sequence      *)
(* Undefined, which no real string equals.                                 *)
(*                                                                         *)
(* Toasts, which remove themselves after three seconds, and the rendering  *)
(* of the table are not part of the state.  The page's HTML is not among   *)
(* the sources: form.reset() is taken to empty every field and to uncheck  *)
(* every format.                                                           *)
(*                                                                         *)
(* Time is counted in seconds.  The decoder (Quagga) is not among the      *)
(* sources: it calls the init callback once for each Quagga.init, delivers *)
(* results to every handler registered while it runs, and may deliver one  *)
(* more result that its workers had posted before Quagga.stop().           *)
(***************************************************************************)
EXTENDS Integers, Sequences, FiniteSets, TLC

VARIABLES
    books,      \* DataStore.books: the in-memory collection
    storage,    \* localStorage item STORAGE_KEY: [kind, value]
    nextId,     \* the next identifier generateId() hands out
    clock,      \* the wall clock read by getCurrentTimestamp()
    faults,     \* how many times localStorage.setItem has thrown
    last,       \* the most recent DataStore call: which, and what came back
    form,       \* the fields and format checkboxes of the book form
    modal,      \* the book modal: shown or not, its dataset mode and bookId
    isbnInput,  \* the text of the ISBN input
    isbnLookupBtnDisabled,  \* whether the lookup button is disabled
    lookups,    \* the calls of lookupISBN that await their answer
    barcodeModal,   \* whether the barcode modal is open, the scanner running
    prompt,     \* the duplicate prompt confirm() is showing, if any
    detectedBarcodes,   \* barcode.js detectedBarcodes, in insertion order
    detectionTimer,     \* barcode.js detectionTimer: a timer handle or null
    timeouts,   \* the browser's pending timeouts: handle and seconds left
    quagga,     \* the decoder: inits under way, running, handlers, posted
    capture     \* what the camera and the sink have seen since the last start

storeVars == <<books, storage, nextId, clock, faults, last>>

uiVars == <<form, modal, isbnInput, isbnLookupBtnDisabled, lookups,
            barcodeModal, prompt>>

scanVars == <<detectedBarcodes, detectionTimer, timeouts, quagga, capture>>

vars == <<storeVars, uiVars, scanVars>>

----------------------------------------------------------------------------
(* Bounds of the model *)

\* generateId() is called at most MaxIds times in a behaviour
MaxIds == 3
\* localStorage.setItem throws at most MaxFaults times in a behaviour
MaxFaults == 1
\* startBarcodeScanner is called at most MaxSessions times in a behaviour
MaxSessions == 2
\* the decoder delivers at most MaxDetections results after a start
MaxDetections == 3

----------------------------------------------------------------------------
(* JavaScript values *)

Undefined == <<"undefined">>
EmptyString == <<>>

\* a string is truthy unless it is undefined or ''
Truthy(s) == s # Undefined /\ s # EmptyString

\* x || d
OrElse(x, d) == IF Truthy(x) THEN x ELSE d

\* the characters \s matches, among those the model uses
IsSpace(c) == c \in {" ", "\t"}

RECURSIVE TrimStart(_)
TrimStart(s) ==
    IF s = <<>> THEN <<>>
    ELSE IF IsSpace(Head(s)) THEN TrimStart(Tail(s)) ELSE s

RECURSIVE TrimEnd(_)
TrimEnd(s) ==
    IF s = <<>> THEN <<>>
    ELSE IF IsSpace(s[Len(s)]) THEN TrimEnd(SubSeq(s, 1, Len(s) - 1)) ELSE s

\* String.prototype.trim
Trim(s) == TrimEnd(TrimStart(s))

\* x?.trim()
OptTrim(s) == IF s = Undefined THEN Undefined ELSE Trim(s)

UpperCase == <<"A", "B", "C", "D", "E", "F", "G", "H", "I", "J", "K", "L", "M",
               "N", "O", "P", "Q", "R", "S", "T", "U", "V", "W", "X", "Y", "Z">>
LowerCase == <<"a", "b", "c", "d", "e", "f", "g", "h", "i", "j", "k", "l", "m",
               "n", "o", "p", "q", "r", "s", "t", "u", "v", "w", "x", "y", "z">>

LowerChar(c) ==
    IF \E i \in 1..Len(UpperCase) : UpperCase[i] = c
    THEN LowerCase[CHOOSE i \in 1..Len(UpperCase) : UpperCase[i] = c]
    ELSE c

\* String.prototype.toLowerCase
ToLowerCase(s) == [i \in 1..Len(s) |-> LowerChar(s[i])]

\* x?.toLowerCase()
OptToLowerCase(s) == IF s = Undefined THEN Undefined ELSE ToLowerCase(s)

Digits == {"0", "1", "2", "3", "4", "5", "6", "7", "8", "9"}

\* isbn.replace(/[-\s]/g, '')
StripHyphensSpaces(s) == SelectSeq(s, LAMBDA c : c # "-" /\ ~IsSpace(c))

\* /^\d{n}$/.test(s)
IsDigits(s, n) == Len(s) = n /\ \A i \in 1..Len(s) : s[i] \in Digits

IsbnShort == 10
IsbnLong == 13

\* utils.js isValidISBN: an absent isbn is valid, a present one must clean to
\* 10 or 13 digits
isValidISBN(isbn) ==
    IF ~Truthy(isbn) THEN TRUE
    ELSE LET cleaned == StripHyphensSpaces(isbn)
         IN  IsDigits(cleaned, IsbnShort) \/ IsDigits(cleaned, IsbnLong)

\* s.includes(sub)
Includes(s, sub) ==
    \E i \in 0..(Len(s) - Len(sub)) : SubSeq(s, i + 1, i + Len(sub)) = sub

\* strs.join(sep)
RECURSIVE Join(_, _)
Join(strs, sep) ==
    IF Len(strs) = 0 THEN <<>>
    ELSE IF Len(strs) = 1 THEN strs[1]
    ELSE strs[1] \o sep \o Join(Tail(strs), sep)

\* [...new Set(seq)]: the elements in the order of their first occurrence
RECURSIVE Unique(_)
Unique(seq) ==
    IF seq = <<>> THEN <<>>
    ELSE LET init == Unique(SubSeq(seq, 1, Len(seq) - 1))
             x    == seq[Len(seq)]
         IN  IF \E i \in 1..Len(init) : init[i] = x THEN init ELSE Append(init, x)

\* object.name: the value of the property, undefined when the object has none
Property(object, name) ==
    IF name \in DOMAIN object THEN object[name] ELSE Undefined

----------------------------------------------------------------------------
(* Validation *)

\* one rule of validateBook: the message when the rule is violated
Rule(violated, message) == IF violated THEN <<message>> ELSE <<>>

\* utils.js validateBook: every rule is evaluated, the messages in rule order.
\* book.formats is an array or undefined; an array is truthy also when empty.
ValidateErrors(book) ==
       Rule(~Truthy(OptTrim(book.title)), "Title is required")
    \o Rule(~Truthy(OptTrim(book.author)), "Author is required")
    \o Rule(~Truthy(book.genre), "Genre is required")
    \o Rule(~Truthy(book.fictionType), "Fiction Type is required")
    \o Rule(~Truthy(book.difficulty), "Difficulty is required")
    \o Rule(~Truthy(book.status), "Status is required")
    \o Rule(book.formats = Undefined \/ Len(book.formats) = 0,
            "At least one format is required")
    \o Rule(Truthy(book.isbn) /\ ~isValidISBN(book.isbn), "Invalid ISBN format")

\* validateBook returning at the first violated rule
validateBook_ShortCircuit(book) ==
    LET errors == ValidateErrors(book)
    IN  [isValid |-> Len(errors) = 0,
         errors |-> IF errors = <<>> THEN <<>> ELSE <<errors[1]>>]

validateBook(book) ==
    LET errors == ValidateErrors(book)
    IN  [isValid |-> Len(errors) = 0, errors |-> errors]

----------------------------------------------------------------------------
(* The DataStore *)

\* the state of localStorage[STORAGE_KEY]: nothing stored, or a JSON text.
\* JSON.stringify followed by JSON.parse gives back an array of records with
\* the same string and array fields (a property holding undefined is dropped
\* and reads back as undefined), so a stored array is kept as its value.
NoItem == [kind |-> "null", value |-> <<>>]
\* what else the item may be when something other than saveToStorage wrote
\* it: the empty text, a text JSON.parse rejects, the JSON text of a value
\* that is not an array; and an item localStorage.getItem throws on
EmptyItem == [kind |-> "empty", value |-> <<>>]
MalformedItem == [kind |-> "malformed", value |-> <<>>]
NonArrayItem == [kind |-> "json", value |-> <<>>]
UnreadableItem == [kind |-> "unreadable", value |-> <<>>]
JSONStringify(bs) == [kind |-> "array", value |-> bs]

\* saveToStorage: localStorage.setItem either stores the serialised collection
\* or throws (quota exceeded), and the throw is passed on as an Error
saveToStorage(bs, stored, quotaOk) ==
    IF quotaOk
    THEN [storage |-> JSONStringify(bs), thrown |-> FALSE]
    ELSE [storage |-> stored, thrown |-> TRUE]

\* loadFromStorage without its try: what getItem or JSON.parse throws leaves
\* the call
loadFromStorage_Uncaught(bs, stored) ==
    IF stored.kind \in {"unreadable", "malformed"}
    THEN [books |-> bs, thrown |-> TRUE]
    ELSE IF stored.kind \in {"null", "empty"}
    THEN [books |-> bs, thrown |-> FALSE]
    ELSE [books |-> IF stored.kind = "array" THEN stored.value ELSE <<>>,
          thrown |-> FALSE]

\* loadFromStorage on a collection bs: nothing stored, or the empty text,
\* leaves the collection as it is; a stored text replaces the collection with
\* the array it holds, or with [] when it holds something else; what getItem
\* or JSON.parse throws is caught and the collection becomes [].  The result
\* is the collection and whether the call threw.
loadFromStorage(bs, stored) ==
    IF stored.kind \in {"unreadable", "malformed"}
    THEN [books |-> <<>>, thrown |-> FALSE]
    ELSE IF stored.kind \in {"null", "empty"}
    THEN [books |-> bs, thrown |-> FALSE]
    ELSE [books |-> IF stored.kind = "array" THEN stored.value ELSE <<>>,
          thrown |-> FALSE]

\* the index of the first book with this id, 0 for findIndex's -1
FindIndex(bs, id) ==
    IF \E i \in 1..Len(bs) : bs[i].id = id
    THEN CHOOSE i \in 1..Len(bs) :
            bs[i].id = id /\ \A j \in 1..(i - 1) : bs[j].id # id
    ELSE 0

\* getBookById
getBookById(bs, id) ==
    IF FindIndex(bs, id) = 0 THEN <<>> ELSE <<bs[FindIndex(bs, id)]>>

\* the fields addBook and updateBook take from bookData
MutableFields(bookData) ==
    [title           |-> Trim(bookData.title),
     author          |-> Trim(bookData.author),
     status          |-> bookData.status,
     genre           |-> bookData.genre,
     fictionType     |-> bookData.fictionType,
     difficulty      |-> bookData.difficulty,
     formats         |-> bookData.formats,
     notes           |-> OrElse(OptTrim(bookData.notes), EmptyString),
     isbn            |-> OrElse(OptTrim(bookData.isbn), EmptyString),
     publicationDate |-> OrElse(bookData.publicationDate, EmptyString),
     acquiredDate    |-> OrElse(bookData.acquiredDate, EmptyString),
     coverUrl        |-> OrElse(OptTrim(bookData.coverUrl), EmptyString)]

\* a stored book: the mutable fields with id and addedAt
WithIdentity(fields, id, addedAt) ==
    [id              |-> id,
     title           |-> fields.title,
     author          |-> fields.author,
     status          |-> fields.status,
     genre           |-> fields.genre,
     fictionType     |-> fields.fictionType,
     difficulty      |-> fields.difficulty,
     formats         |-> fields.formats,
     notes           |-> fields.notes,
     isbn            |-> fields.isbn,
     publicationDate |-> fields.publicationDate,
     acquiredDate    |-> fields.acquiredDate,
     coverUrl        |-> fields.coverUrl,
     addedAt         |-> addedAt]

\* what a DataStore call leaves behind: the collection, the backend, the id
\* counter, how the call ended, the messages of the Error it threw, and the
\* value it returned (a sequence of zero or one book)
Outcome(bs, stored, idc, outcome, errors, ret) ==
    [books |-> bs, storage |-> stored, nextId |-> idc,
     outcome |-> outcome, errors |-> errors, ret |-> ret]

\* addBook without its validation guard
addBook_Unvalidated(s, bookData, now, quotaOk) ==
    LET book   == WithIdentity(MutableFields(bookData), s.nextId, now)
        pushed == Append(s.books, book)
        saved  == saveToStorage(pushed, s.storage, quotaOk)
    IN  IF saved.thrown
        THEN Outcome(pushed, saved.storage, s.nextId + 1,
                     "PersistenceError", <<"Failed to save books">>, <<>>)
        ELSE Outcome(pushed, saved.storage, s.nextId + 1, "ok", <<>>, <<book>>)

\* addBook throwing only the first validation message
addBook_FirstError(s, bookData, now, quotaOk) ==
    LET validation == validateBook(bookData)
    IN  IF ~validation.isValid
        THEN Outcome(s.books, s.storage, s.nextId,
                     "ValidationError", <<validation.errors[1]>>, <<>>)
        ELSE addBook_Unvalidated(s, bookData, now, quotaOk)

\* addBook(bookData) on the store s = [books, storage, nextId]: validate, build
\* the book, push it, save, return it
addBook(s, bookData, now, quotaOk) ==
    LET validation == validateBook(bookData)
    IN  IF ~validation.isValid
        THEN Outcome(s.books, s.storage, s.nextId,
                     "ValidationError", validation.errors, <<>>)
        ELSE LET book   == WithIdentity(MutableFields(bookData), s.nextId, now)
                 pushed == Append(s.books, book)
                 saved  == saveToStorage(pushed, s.storage, quotaOk)
             IN  IF saved.thrown
                 THEN Outcome(pushed, saved.storage, s.nextId + 1,
                              "PersistenceError", <<"Failed to save books">>, <<>>)
                 ELSE Outcome(pushed, saved.storage, s.nextId + 1,
                              "ok", <<>>, <<book>>)

\* updateBook building the replacement as addBook builds a new book: with
\* the next id and the time of the call (the clock reads nextId - 1)
updateBook_NewIdentity(s, id, bookData, quotaOk) ==
    LET index == FindIndex(s.books, id)
        validation == validateBook(bookData)
    IN  IF index = 0
        THEN Outcome(s.books, s.storage, s.nextId,
                     "NotFoundError", <<"Book not found">>, <<>>)
        ELSE IF ~validation.isValid
        THEN Outcome(s.books, s.storage, s.nextId,
                     "ValidationError", validation.errors, <<>>)
        ELSE LET book     == WithIdentity(MutableFields(bookData),
                                          s.nextId, s.nextId - 1)
                 replaced == [s.books EXCEPT ![index] = book]
                 saved    == saveToStorage(replaced, s.storage, quotaOk)
             IN  IF saved.thrown
                 THEN Outcome(replaced, saved.storage, s.nextId,
                              "PersistenceError", <<"Failed to save books">>, <<>>)
                 ELSE Outcome(replaced, saved.storage, s.nextId,
                              "ok", <<>>, <<book>>)

\* updateBook validating before it looks the id up
updateBook_ValidateFirst(s, id, bookData, quotaOk) ==
    LET index == FindIndex(s.books, id)
        validation == validateBook(bookData)
    IN  IF ~validation.isValid
        THEN Outcome(s.books, s.storage, s.nextId,
                     "ValidationError", validation.errors, <<>>)
        ELSE IF index = 0
        THEN Outcome(s.books, s.storage, s.nextId,
                     "NotFoundError", <<"Book not found">>, <<>>)
        ELSE LET existingBook == s.books[index]
                 book     == WithIdentity(MutableFields(bookData),
                                          existingBook.id, existingBook.addedAt)
                 replaced == [s.books EXCEPT ![index] = book]
                 saved    == saveToStorage(replaced, s.storage, quotaOk)
             IN  IF saved.thrown
                 THEN Outcome(replaced, saved.storage, s.nextId,
                              "PersistenceError", <<"Failed to save books">>, <<>>)
                 ELSE Outcome(replaced, saved.storage, s.nextId,
                              "ok", <<>>, <<book>>)

\* updateBook(id, bookData): find, validate, replace keeping id and addedAt,
\* save, return the replaced book
updateBook(s, id, bookData, quotaOk) ==
    LET index == FindIndex(s.books, id)
        validation == validateBook(bookData)
    IN  IF index = 0
        THEN Outcome(s.books, s.storage, s.nextId,
                     "NotFoundError", <<"Book not found">>, <<>>)
        ELSE IF ~validation.isValid
        THEN Outcome(s.books, s.storage, s.nextId,
                     "ValidationError", validation.errors, <<>>)
        ELSE LET existingBook == s.books[index]
                 book     == WithIdentity(MutableFields(bookData),
                                          existingBook.id, existingBook.addedAt)
                 replaced == [s.books EXCEPT ![index] = book]
                 saved    == saveToStorage(replaced, s.storage, quotaOk)
             IN  IF saved.thrown
                 THEN Outcome(replaced, saved.storage, s.nextId,
                              "PersistenceError", <<"Failed to save books">>, <<>>)
                 ELSE Outcome(replaced, saved.storage, s.nextId,
                              "ok", <<>>, <<book>>)

\* books.splice(index, 1): the collection without its index-th element
Splice(bs, index) ==
    SubSeq(bs, 1, index - 1) \o SubSeq(bs, index + 1, Len(bs))

\* deleteBook(id): find, splice out, save, return the removed book
deleteBook(s, id, quotaOk) ==
    LET index == FindIndex(s.books, id)
    IN  IF index = 0
        THEN Outcome(s.books, s.storage, s.nextId,
                     "NotFoundError", <<"Book not found">>, <<>>)
        ELSE LET deleted == s.books[index]
                 spliced == Splice(s.books, index)
                 saved   == saveToStorage(spliced, s.storage, quotaOk)
             IN  IF saved.thrown
                 THEN Outcome(spliced, saved.storage, s.nextId,
                              "PersistenceError", <<"Failed to save books">>, <<>>)
                 ELSE Outcome(spliced, saved.storage, s.nextId,
                              "ok", <<>>, <<deleted>>)

\* an element of the imported array that is null: reading a property of it
\* throws a TypeError
Null == [null |-> TRUE]

\* importBooks' defaults for a record's missing fields
completeBookData(bookData) ==
    [title           |-> OrElse(bookData.title, <<"U", "n", "t", "i", "t", "l", "e", "d">>),
     author          |-> OrElse(bookData.author, <<"U", "n", "k", "n", "o", "w", "n", " ", "A", "u", "t", "h", "o", "r">>),
     status          |-> OrElse(bookData.status, <<"u", "n", "r", "e", "a", "d">>),
     genre           |-> OrElse(bookData.genre, <<"U", "n", "c", "a", "t", "e", "g", "o", "r", "i", "z", "e", "d">>),
     fictionType     |-> OrElse(bookData.fictionType, <<"N", "o", "n", "f", "i", "c", "t", "i", "o", "n">>),
     difficulty      |-> OrElse(bookData.difficulty, <<"M", "o", "d", "e", "r", "a", "t", "e">>),
     formats         |-> IF bookData.formats = Undefined
                         THEN <<"physical">> ELSE bookData.formats,
     notes           |-> OrElse(bookData.notes, EmptyString),
     isbn            |-> OrElse(bookData.isbn, EmptyString),
     publicationDate |-> OrElse(bookData.publicationDate, EmptyString),
     acquiredDate    |-> OrElse(bookData.acquiredDate, EmptyString),
     coverUrl        |-> OrElse(bookData.coverUrl, EmptyString)]

\* importBooks' duplicate test comparing title and author as they are written
isDuplicate_CaseSensitive(bs, bookData) ==
    \E i \in 1..Len(bs) :
        bs[i].title = bookData.title /\ bs[i].author = bookData.author

\* importBooks' duplicate test of one record against the current collection:
\* lowercased title and author, not trimmed; a missing title or author
\* compares unequal to every stored one
isDuplicate(bs, bookData) ==
    \E i \in 1..Len(bs) :
        /\ ToLowerCase(bs[i].title) = OptToLowerCase(bookData.title)
        /\ ToLowerCase(bs[i].author) = OptToLowerCase(bookData.author)

\* one turn of importBooks' forEach on the running state
\* r = [books, storage, nextId, imported, skipped, thrown]; thrown counts the
\* saves that threw, for the model's bound on them.  Whatever is thrown in
\* the turn is caught and counted as skipped: the TypeError of a null record
\* (in the duplicate test or, on the empty collection, in the defaulting) and
\* the Error of addBook.
importOne(r, bookData, now, quotaOk) ==
    IF bookData = Null
    THEN [r EXCEPT !.skipped = @ + 1]
    ELSE IF isDuplicate(r.books, bookData)
    THEN [r EXCEPT !.skipped = @ + 1]
    ELSE LET added == addBook(r, completeBookData(bookData), now, quotaOk)
         IN  [books    |-> added.books,
              storage  |-> added.storage,
              nextId   |-> added.nextId,
              imported |-> IF added.outcome = "ok" THEN r.imported + 1 ELSE r.imported,
              skipped  |-> IF added.outcome = "ok" THEN r.skipped ELSE r.skipped + 1,
              thrown   |-> IF added.outcome = "PersistenceError"
                           THEN r.thrown + 1 ELSE r.thrown]

\* importBooks' forEach without the try around each turn: the first record
\* that throws ends the loop
RECURSIVE importLoop_Aborting(_, _, _, _, _)
importLoop_Aborting(r, importedBooks, now, quota, i) ==
    IF i > Len(importedBooks) THEN r
    ELSE LET bookData == importedBooks[i]
             turn == importOne(r, bookData, now, quota[i])
             threw == /\ turn.skipped > r.skipped
                      /\ (bookData = Null \/ ~isDuplicate(r.books, bookData))
         IN  IF threw THEN turn
             ELSE importLoop_Aborting(turn, importedBooks, now, quota, i + 1)

RECURSIVE importLoop(_, _, _, _, _)
importLoop(r, importedBooks, now, quota, i) ==
    IF i > Len(importedBooks) THEN r
    ELSE importLoop(importOne(r, importedBooks[i], now, quota[i]),
                    importedBooks, now, quota, i + 1)

\* importBooks(importedBooks) for an array: the records in order, each against
\* the collection as the earlier ones left it; quota[i] says whether the i-th
\* record's save finds room
importBooks(s, importedBooks, now, quota) ==
    LET r == importLoop([books |-> s.books, storage |-> s.storage,
                         nextId |-> s.nextId, imported |-> 0, skipped |-> 0,
                         thrown |-> 0],
                        importedBooks, now, quota, 1)
    IN  [books |-> r.books, storage |-> r.storage, nextId |-> r.nextId,
         outcome |-> "ok", errors |-> <<>>, ret |-> <<>>, thrown |-> r.thrown,
         result |-> [imported |-> r.imported, skipped |-> r.skipped,
                     total |-> Len(importedBooks)]]

\* exportBooks / getAllBooks: a copy of the collection
exportBooks(bs) == bs

----------------------------------------------------------------------------
(* The book form, the lookup service and the duplicate workflow *)

\* the book form after form.reset(): every field empty, no format checked
EmptyForm ==
    [bookTitle |-> EmptyString, bookAuthor |-> EmptyString,
     bookGenre |-> EmptyString, bookFictionType |-> EmptyString,
     bookDifficulty |-> EmptyString, bookStatus |-> EmptyString,
     bookISBN |-> EmptyString, bookPublicationDate |-> EmptyString,
     bookAcquiredDate |-> EmptyString, bookCoverUrl |-> EmptyString,
     bookNotes |-> EmptyString,
     formatPhysical |-> FALSE, formatKindle |-> FALSE, formatAudible |-> FALSE]

\* ui.js getBookFormData: the checked formats in the order physical, kindle,
\* audible, and the value of every field
getBookFormData(f) ==
    [title           |-> f.bookTitle,
     author          |-> f.bookAuthor,
     genre           |-> f.bookGenre,
     fictionType     |-> f.bookFictionType,
     difficulty      |-> f.bookDifficulty,
     status          |-> f.bookStatus,
     formats         |-> (IF f.formatPhysical THEN <<"physical">> ELSE <<>>)
                         \o (IF f.formatKindle THEN <<"kindle">> ELSE <<>>)
                         \o (IF f.formatAudible THEN <<"audible">> ELSE <<>>),
     isbn            |-> f.bookISBN,
     publicationDate |-> f.bookPublicationDate,
     acquiredDate    |-> f.bookAcquiredDate,
     coverUrl        |-> f.bookCoverUrl,
     notes           |-> f.bookNotes]

\* ui.js autofillBookForm: each truthy looked-up field overwrites its form
\* field, and so do the genre and fiction type of a classification;
\* autoClassification is <<>> for null
autofillBookForm(f, bookData, autoClassification) ==
    LET g == [f EXCEPT
                !.bookTitle = IF Truthy(bookData.title) THEN bookData.title ELSE @,
                !.bookAuthor = IF Truthy(bookData.author) THEN bookData.author ELSE @,
                !.bookISBN = IF Truthy(bookData.isbn) THEN bookData.isbn ELSE @,
                !.bookPublicationDate =
                    IF Truthy(bookData.publicationDate)
                    THEN bookData.publicationDate ELSE @,
                !.bookCoverUrl =
                    IF Truthy(bookData.coverUrl) THEN bookData.coverUrl ELSE @]
    IN  IF autoClassification = <<>> THEN g
        ELSE [g EXCEPT
                !.bookGenre = IF Truthy(autoClassification[1].genre)
                              THEN autoClassification[1].genre ELSE @,
                !.bookFictionType = IF Truthy(autoClassification[1].fictionType)
                                    THEN autoClassification[1].fictionType ELSE @]

\* api.js validateISBN
validateISBN(isbn) ==
    IF ~Truthy(isbn)
    THEN [valid |-> FALSE, message |-> "ISBN is required", isbn |-> Undefined]
    ELSE LET cleaned == StripHyphensSpaces(isbn)
         IN  IF ~IsDigits(cleaned, IsbnShort) /\ ~IsDigits(cleaned, IsbnLong)
             THEN [valid |-> FALSE, message |-> "ISBN must be 10 or 13 digits",
                   isbn |-> Undefined]
             ELSE [valid |-> TRUE, message |-> "", isbn |-> cleaned]

\* what the lookup service answers: a book, no book, or nothing (the fetch or
\* the parse of its body throws)
NotFound == [kind |-> "notfound"]
TransportError == [kind |-> "error"]
Found(book) == [kind |-> "found", book |-> book]

\* api.js lookupISBN on the answer `reply`: the normalised book, null (<<>>),
\* or an Error thrown
lookupISBN(isbn, reply) ==
    IF reply.kind = "error" THEN [thrown |-> TRUE, bookData |-> <<>>]
    ELSE IF reply.kind = "notfound" THEN [thrown |-> FALSE, bookData |-> <<>>]
    ELSE LET book == reply.book
         IN  [thrown |-> FALSE,
              bookData |->
                <<[title           |-> OrElse(book.title, EmptyString),
                   author          |-> OrElse(book.author, EmptyString),
                   isbn            |-> OrElse(book.isbn, isbn),
                   publicationDate |-> OrElse(book.publicationDate, EmptyString),
                   coverUrl        |-> OrElse(book.coverUrl, EmptyString),
                   categories      |-> IF book.categories = Undefined
                                       THEN <<>> ELSE book.categories,
                   source          |-> book.source]>>]

Classified(genre, fictionType) ==
    <<[genre |-> genre, fictionType |-> fictionType]>>

Fiction == <<"F", "i", "c", "t", "i", "o", "n">>
Nonfiction == <<"N", "o", "n", "f", "i", "c", "t", "i", "o", "n">>

\* the rules of autoClassifyGenre in the order of the source: the keywords
\* of which one must occur, the keywords that must not, and the result
ClassifyRules ==
    << [keys |-> {<<"l", "i", "t", "e", "r", "a", "r", "y">>, <<"l", "i", "t", "e", "r", "a", "t", "u", "r", "e">>}, unless |-> {},
        genre |-> <<"L", "i", "t", "e", "r", "a", "r", "y", " ", "F", "i", "c", "t", "i", "o", "n">>, fictionType |-> Fiction],
       [keys |-> {<<"m", "y", "s", "t", "e", "r", "y">>, <<"t", "h", "r", "i", "l", "l", "e", "r">>, <<"d", "e", "t", "e", "c", "t", "i", "v", "e">>}, unless |-> {},
        genre |-> <<"M", "y", "s", "t", "e", "r", "y", "/", "T", "h", "r", "i", "l", "l", "e", "r">>, fictionType |-> Fiction],
       [keys |-> {<<"s", "c", "i", "e", "n", "c", "e", " ", "f", "i", "c", "t", "i", "o", "n">>, <<"s", "c", "i", "-", "f", "i">>}, unless |-> {},
        genre |-> <<"S", "c", "i", "e", "n", "c", "e", " ", "F", "i", "c", "t", "i", "o", "n">>, fictionType |-> Fiction],
       [keys |-> {<<"f", "a", "n", "t", "a", "s", "y">>}, unless |-> {},
        genre |-> <<"F", "a", "n", "t", "a", "s", "y">>, fictionType |-> Fiction],
       [keys |-> {<<"r", "o", "m", "a", "n", "c", "e">>}, unless |-> {},
        genre |-> <<"R", "o", "m", "a", "n", "c", "e">>, fictionType |-> Fiction],
       [keys |-> {<<"h", "i", "s", "t", "o", "r", "i", "c", "a", "l", " ", "f", "i", "c", "t", "i", "o", "n">>}, unless |-> {},
        genre |-> <<"H", "i", "s", "t", "o", "r", "i", "c", "a", "l", " ", "F", "i", "c", "t", "i", "o", "n">>, fictionType |-> Fiction],
       [keys |-> {<<"h", "o", "r", "r", "o", "r">>}, unless |-> {},
        genre |-> <<"H", "o", "r", "r", "o", "r">>, fictionType |-> Fiction],
       [keys |-> {<<"b", "i", "o", "g", "r", "a", "p", "h", "y">>, <<"m", "e", "m", "o", "i", "r">>}, unless |-> {},
        genre |-> <<"B", "i", "o", "g", "r", "a", "p", "h", "y", "/", "M", "e", "m", "o", "i", "r">>, fictionType |-> Nonfiction],
       [keys |-> {<<"h", "i", "s", "t", "o", "r", "y">>}, unless |-> {},
        genre |-> <<"H", "i", "s", "t", "o", "r", "y">>, fictionType |-> Nonfiction],
       [keys |-> {<<"s", "c", "i", "e", "n", "c", "e">>}, unless |-> {<<"f", "i", "c", "t", "i", "o", "n">>},
        genre |-> <<"S", "c", "i", "e", "n", "c", "e">>, fictionType |-> Nonfiction],
       [keys |-> {<<"p", "h", "i", "l", "o", "s", "o", "p", "h", "y">>}, unless |-> {},
        genre |-> <<"P", "h", "i", "l", "o", "s", "o", "p", "h", "y">>, fictionType |-> Nonfiction],
       [keys |-> {<<"b", "u", "s", "i", "n", "e", "s", "s">>, <<"e", "c", "o", "n", "o", "m", "i", "c", "s">>}, unless |-> {},
        genre |-> <<"B", "u", "s", "i", "n", "e", "s", "s">>, fictionType |-> Nonfiction],
       [keys |-> {<<"s", "e", "l", "f", "-", "h", "e", "l", "p">>, <<"s", "e", "l", "f", " ", "h", "e", "l", "p">>}, unless |-> {},
        genre |-> <<"S", "e", "l", "f", "-", "H", "e", "l", "p">>, fictionType |-> Nonfiction],
       [keys |-> {<<"t", "r", "u", "e", " ", "c", "r", "i", "m", "e">>}, unless |-> {},
        genre |-> <<"T", "r", "u", "e", " ", "C", "r", "i", "m", "e">>, fictionType |-> Nonfiction],
       [keys |-> {<<"e", "s", "s", "a", "y">>}, unless |-> {},
        genre |-> <<"E", "s", "s", "a", "y", " ", "C", "o", "l", "l", "e", "c", "t", "i", "o", "n">>, fictionType |-> Nonfiction],
       [keys |-> {<<"p", "o", "l", "i", "t", "i", "c", "s">>, <<"p", "o", "l", "i", "t", "i", "c", "a", "l">>}, unless |-> {},
        genre |-> <<"P", "o", "l", "i", "t", "i", "c", "s", "/", "C", "u", "r", "r", "e", "n", "t", " ", "E", "v", "e", "n", "t", "s">>, fictionType |-> Nonfiction],
       [keys |-> {<<"p", "o", "e", "t", "r", "y">>}, unless |-> {},
        genre |-> <<"P", "o", "e", "t", "r", "y">>, fictionType |-> Nonfiction],
       [keys |-> {<<"g", "r", "a", "p", "h", "i", "c", " ", "n", "o", "v", "e", "l">>, <<"c", "o", "m", "i", "c", "s">>}, unless |-> {},
        genre |-> <<"G", "r", "a", "p", "h", "i", "c", " ", "N", "o", "v", "e", "l">>, fictionType |-> Fiction],
       [keys |-> {<<"y", "o", "u", "n", "g", " ", "a", "d", "u", "l", "t">>}, unless |-> {},
        genre |-> <<"Y", "o", "u", "n", "g", " ", "A", "d", "u", "l", "t">>, fictionType |-> Fiction],
       [keys |-> {<<"f", "i", "c", "t", "i", "o", "n">>}, unless |-> {},
        genre |-> <<"L", "i", "t", "e", "r", "a", "r", "y", " ", "F", "i", "c", "t", "i", "o", "n">>, fictionType |-> Fiction] >>

\* the lowercased categories joined by spaces
CategoriesStr(categories) ==
    Join([i \in 1..Len(categories) |-> ToLowerCase(categories[i])], <<" ">>)

\* a rule applies to the joined categories
RuleApplies(rule, categoriesStr) ==
    /\ \E key \in rule.keys : Includes(categoriesStr, key)
    /\ \A key \in rule.unless : ~Includes(categoriesStr, key)

\* autoClassifyGenre giving the result of the last rule that applies
autoClassifyGenre_LastMatch(categories) ==
    IF categories = Undefined \/ Len(categories) = 0 THEN <<>>
    ELSE LET applying == { i \in 1..Len(ClassifyRules) :
                             RuleApplies(ClassifyRules[i], CategoriesStr(categories)) }
         IN  IF applying = {} THEN <<>>
             ELSE LET i == CHOOSE i \in applying : \A j \in applying : j <= i
                  IN  Classified(ClassifyRules[i].genre, ClassifyRules[i].fictionType)

\* api.js autoClassifyGenre: the first rule, in the order of the source, that
\* the lowercased categories joined by spaces match; <<>> for null
autoClassifyGenre(categories) ==
    IF categories = Undefined \/ Len(categories) = 0 THEN <<>>
    ELSE
    LET lowerCategories == [i \in 1..Len(categories) |-> ToLowerCase(categories[i])]
        categoriesStr == Join(lowerCategories, <<" ">>)
        has(key) == Includes(categoriesStr, key)
    IN  IF has(<<"l", "i", "t", "e", "r", "a", "r", "y">>) \/ has(<<"l", "i", "t", "e", "r", "a", "t", "u", "r", "e">>)
            THEN Classified(<<"L", "i", "t", "e", "r", "a", "r", "y", " ", "F", "i", "c", "t", "i", "o", "n">>, Fiction)
        ELSE IF has(<<"m", "y", "s", "t", "e", "r", "y">>) \/ has(<<"t", "h", "r", "i", "l", "l", "e", "r">>) \/ has(<<"d", "e", "t", "e", "c", "t", "i", "v", "e">>)
            THEN Classified(<<"M", "y", "s", "t", "e", "r", "y", "/", "T", "h", "r", "i", "l", "l", "e", "r">>, Fiction)
        ELSE IF has(<<"s", "c", "i", "e", "n", "c", "e", " ", "f", "i", "c", "t", "i", "o", "n">>) \/ has(<<"s", "c", "i", "-", "f", "i">>)
            THEN Classified(<<"S", "c", "i", "e", "n", "c", "e", " ", "F", "i", "c", "t", "i", "o", "n">>, Fiction)
        ELSE IF has(<<"f", "a", "n", "t", "a", "s", "y">>) THEN Classified(<<"F", "a", "n", "t", "a", "s", "y">>, Fiction)
        ELSE IF has(<<"r", "o", "m", "a", "n", "c", "e">>) THEN Classified(<<"R", "o", "m", "a", "n", "c", "e">>, Fiction)
        ELSE IF has(<<"h", "i", "s", "t", "o", "r", "i", "c", "a", "l", " ", "f", "i", "c", "t", "i", "o", "n">>)
            THEN Classified(<<"H", "i", "s", "t", "o", "r", "i", "c", "a", "l", " ", "F", "i", "c", "t", "i", "o", "n">>, Fiction)
        ELSE IF has(<<"h", "o", "r", "r", "o", "r">>) THEN Classified(<<"H", "o", "r", "r", "o", "r">>, Fiction)
        ELSE IF has(<<"b", "i", "o", "g", "r", "a", "p", "h", "y">>) \/ has(<<"m", "e", "m", "o", "i", "r">>)
            THEN Classified(<<"B", "i", "o", "g", "r", "a", "p", "h", "y", "/", "M", "e", "m", "o", "i", "r">>, Nonfiction)
        ELSE IF has(<<"h", "i", "s", "t", "o", "r", "y">>) THEN Classified(<<"H", "i", "s", "t", "o", "r", "y">>, Nonfiction)
        ELSE IF has(<<"s", "c", "i", "e", "n", "c", "e">>) /\ ~has(<<"f", "i", "c", "t", "i", "o", "n">>)
            THEN Classified(<<"S", "c", "i", "e", "n", "c", "e">>, Nonfiction)
        ELSE IF has(<<"p", "h", "i", "l", "o", "s", "o", "p", "h", "y">>) THEN Classified(<<"P", "h", "i", "l", "o", "s", "o", "p", "h", "y">>, Nonfiction)
        ELSE IF has(<<"b", "u", "s", "i", "n", "e", "s", "s">>) \/ has(<<"e", "c", "o", "n", "o", "m", "i", "c", "s">>)
            THEN Classified(<<"B", "u", "s", "i", "n", "e", "s", "s">>, Nonfiction)
        ELSE IF has(<<"s", "e", "l", "f", "-", "h", "e", "l", "p">>) \/ has(<<"s", "e", "l", "f", " ", "h", "e", "l", "p">>)
            THEN Classified(<<"S", "e", "l", "f", "-", "H", "e", "l", "p">>, Nonfiction)
        ELSE IF has(<<"t", "r", "u", "e", " ", "c", "r", "i", "m", "e">>) THEN Classified(<<"T", "r", "u", "e", " ", "C", "r", "i", "m", "e">>, Nonfiction)
        ELSE IF has(<<"e", "s", "s", "a", "y">>) THEN Classified(<<"E", "s", "s", "a", "y", " ", "C", "o", "l", "l", "e", "c", "t", "i", "o", "n">>, Nonfiction)
        ELSE IF has(<<"p", "o", "l", "i", "t", "i", "c", "s">>) \/ has(<<"p", "o", "l", "i", "t", "i", "c", "a", "l">>)
            THEN Classified(<<"P", "o", "l", "i", "t", "i", "c", "s", "/", "C", "u", "r", "r", "e", "n", "t", " ", "E", "v", "e", "n", "t", "s">>, Nonfiction)
        ELSE IF has(<<"p", "o", "e", "t", "r", "y">>) THEN Classified(<<"P", "o", "e", "t", "r", "y">>, Nonfiction)
        ELSE IF has(<<"g", "r", "a", "p", "h", "i", "c", " ", "n", "o", "v", "e", "l">>) \/ has(<<"c", "o", "m", "i", "c", "s">>)
            THEN Classified(<<"G", "r", "a", "p", "h", "i", "c", " ", "N", "o", "v", "e", "l">>, Fiction)
        ELSE IF has(<<"y", "o", "u", "n", "g", " ", "a", "d", "u", "l", "t">>) THEN Classified(<<"Y", "o", "u", "n", "g", " ", "A", "d", "u", "l", "t">>, Fiction)
        ELSE IF has(<<"f", "i", "c", "t", "i", "o", "n">>) THEN Classified(<<"L", "i", "t", "e", "r", "a", "r", "y", " ", "F", "i", "c", "t", "i", "o", "n">>, Fiction)
        ELSE <<>>

\* duplicates.js findDuplicate with a comparison that neither lowercases nor
\* trims
findDuplicate_Exact(bs, title, author) ==
    IF \E i \in 1..Len(bs) : bs[i].title = title /\ bs[i].author = author
    THEN <<bs[CHOOSE i \in 1..Len(bs) :
                /\ bs[i].title = title /\ bs[i].author = author
                /\ \A j \in 1..(i - 1) :
                      ~(bs[j].title = title /\ bs[j].author = author)]>>
    ELSE <<>>

\* duplicates.js findDuplicate: the first book whose lowercased, trimmed title
\* and author equal the lowercased, trimmed title and author given; <<>> for
\* undefined
findDuplicate(bs, title, author) ==
    LET same(book) ==
            /\ Trim(ToLowerCase(book.title)) = Trim(ToLowerCase(title))
            /\ Trim(ToLowerCase(book.author)) = Trim(ToLowerCase(author))
    IN  IF \E i \in 1..Len(bs) : same(bs[i])
        THEN <<bs[CHOOSE i \in 1..Len(bs) :
                    same(bs[i]) /\ \A j \in 1..(i - 1) : ~same(bs[j])]>>
        ELSE <<>>

\* a call of handleDuplicate that does not reach the DataStore
Untouched(s) == Outcome(s.books, s.storage, s.nextId, "none", <<>>, <<>>)

\* what handleDuplicate leaves behind: the DataStore call it made (or
\* Untouched), the form, its return value, and whether it asked for the page
\* to reload
Handled(out, f, ret, reload) ==
    [out |-> out, form |-> f, ret |-> ret, reload |-> reload]

CopyNote == <<"P", "h", "y", "s", "i", "c", "a", "l", " ", "C", "o", "p", "y", " ", "2">>

\* the form handleDuplicate stages for another copy: the looked-up data and
\* its classification filled in, physical checked, the note set
stageCopy(f, scannedBookData) ==
    LET classification == autoClassifyGenre(scannedBookData.categories)
    IN  [autofillBookForm(f, scannedBookData, classification) EXCEPT
            !.formatPhysical = TRUE, !.bookNotes = CopyNote]

\* addFormatToBook reading the fiction type under the name the DataStore
\* stores it by, so that updateBook accepts the data
addFormatToBook_ReadsFictionType(s, book, quotaOk) ==
    LET updatedFormats == Unique(book.formats \o <<"physical">>)
        out == updateBook(s, book.id,
                   [title           |-> Property(book, "title"),
                    author          |-> Property(book, "author"),
                    status          |-> Property(book, "status"),
                    genre           |-> Property(book, "genre"),
                    fictionType     |-> Property(book, "fictionType"),
                    difficulty      |-> Property(book, "difficulty"),
                    formats         |-> updatedFormats,
                    notes           |-> Property(book, "notes"),
                    isbn            |-> Property(book, "isbn"),
                    publicationDate |-> Property(book, "publication_date"),
                    acquiredDate    |-> Property(book, "acquired_date"),
                    coverUrl        |-> Property(book, "cover_url")],
                   quotaOk)
    IN  IF out.outcome = "ok"
        THEN [out |-> out, reload |-> TRUE]
        ELSE [out |-> out, reload |-> FALSE]

\* duplicates.js addFormatToBook: updateBook with the book's formats and
\* physical, and with the book's properties as the source names them
addFormatToBook(s, book, quotaOk) ==
    LET updatedFormats == Unique(book.formats \o <<"physical">>)
        out == updateBook(s, book.id,
                   [title           |-> Property(book, "title"),
                    author          |-> Property(book, "author"),
                    status          |-> Property(book, "status"),
                    genre           |-> Property(book, "genre"),
                    fictionType     |-> Property(book, "fiction_type"),
                    difficulty      |-> Property(book, "difficulty"),
                    formats         |-> updatedFormats,
                    notes           |-> Property(book, "notes"),
                    isbn            |-> Property(book, "isbn"),
                    publicationDate |-> Property(book, "publication_date"),
                    acquiredDate    |-> Property(book, "acquired_date"),
                    coverUrl        |-> Property(book, "cover_url")],
                   quotaOk)
    IN  IF out.outcome = "ok"
        THEN [out |-> out, reload |-> TRUE]
        ELSE [out |-> out, reload |-> FALSE]

\* handleDuplicate adding the second copy itself when the user accepts
handleDuplicate_Persisting(s, f, scannedBookData, existingBook, answer, quotaOk) ==
    LET staged == stageCopy(f, scannedBookData)
    IN  IF answer
        THEN Handled(addBook(s, [getBookFormData(staged) EXCEPT
                                    !.genre = existingBook.genre,
                                    !.fictionType = existingBook.fictionType,
                                    !.difficulty = existingBook.difficulty,
                                    !.status = existingBook.status],
                             s.nextId - 1, quotaOk),
                     staged, FALSE, FALSE)
        ELSE Handled(Untouched(s), f, TRUE, FALSE)

\* duplicates.js handleDuplicate, `answer` being what confirm() returns
handleDuplicate(s, f, scannedBookData, existingBook, answer, quotaOk) ==
    LET hasPhysical ==
            \E i \in 1..Len(existingBook.formats) :
                existingBook.formats[i] = "physical"
    IN  IF hasPhysical
        THEN IF answer
             THEN Handled(Untouched(s), stageCopy(f, scannedBookData),
                          FALSE, FALSE)
             ELSE Handled(Untouched(s), f, TRUE, FALSE)
        ELSE IF answer
             THEN LET added == addFormatToBook(s, existingBook, quotaOk)
                  IN  Handled(added.out, f, TRUE, added.reload)
             ELSE Handled(Untouched(s), stageCopy(f, scannedBookData),
                          FALSE, FALSE)

----------------------------------------------------------------------------
(* The barcode capture session (js/barcode.js), the decoder and the timers *)

\* the quiet period of the capture session, in seconds
QuietPeriod == 5

\* detectionTimer = null
NoTimer == 0

\* the module's variables, the browser's timers and the decoder, as the
\* functions of the module take them
Scanner ==
    [detectedBarcodes |-> detectedBarcodes, detectionTimer |-> detectionTimer,
     timeouts |-> timeouts, quagga |-> quagga]

\* the decoder before Quagga.init was ever called: no init under way, not
\* running, no handler registered, no result on its way
QuaggaIdle == [inits |-> 0, running |-> FALSE, handlers |-> 0, posted |-> FALSE]

\* Quagga.stop(): the decoder halts; its workers may have posted a result
\* that was not delivered yet, and no handler is unsubscribed
QuaggaStop(q) == [q EXCEPT !.running = FALSE, !.posted = q.running \/ q.posted]

\* setTimeout returns a handle that no pending timeout has and that was not
\* handed out to the module before
FreshHandle(sc) ==
    CHOOSE id \in 1..(Cardinality(sc.timeouts) + 2) :
        /\ id # sc.detectionTimer
        /\ \A t \in sc.timeouts : t.id # id

\* setTimeout(callback, delay) with the handle it returns
SetTimeout(pending, id, delay) == pending \cup {[id |-> id, remaining |-> delay]}

\* clearTimeout(id)
ClearTimeout(pending, id) == { t \in pending : t.id # id }

\* set.add(x) on a Set, which keeps the order of insertion
SetAdd(set, x) ==
    IF \E i \in 1..Len(set) : set[i] = x THEN set ELSE Append(set, x)

\* cleanCode.length === 10 || cleanCode.length === 13
ValidLength(cleanCode) == Len(cleanCode) = IsbnShort \/ Len(cleanCode) = IsbnLong

\* the onDetected handler scheduling its timer without cancelling the one
\* that is pending
OnDetectedHandler_KeepsTimer(sc, code) ==
    LET cleanCode == StripHyphensSpaces(code)
    IN  IF ValidLength(cleanCode)
        THEN LET id == FreshHandle(sc)
             IN  [sc EXCEPT !.detectedBarcodes = SetAdd(@, cleanCode),
                            !.detectionTimer = id,
                            !.timeouts = SetTimeout(@, id, QuietPeriod)]
        ELSE sc

\* the handler startBarcodeScanner registers with Quagga.onDetected, on a
\* result whose code is `code`: a code of another length than 10 or 13 is
\* ignored, any other is added and the timer is cancelled and set anew
OnDetectedHandler(sc, code) ==
    LET cleanCode == StripHyphensSpaces(code)
    IN  IF ValidLength(cleanCode)
        THEN LET cleared == IF sc.detectionTimer # NoTimer
                            THEN ClearTimeout(sc.timeouts, sc.detectionTimer)
                            ELSE sc.timeouts
                 id == FreshHandle(sc)
             IN  [sc EXCEPT !.detectedBarcodes = SetAdd(@, cleanCode),
                            !.detectionTimer = id,
                            !.timeouts = SetTimeout(cleared, id, QuietPeriod)]
        ELSE sc

\* Quagga hands a result to the handlers registered, one after the other
RECURSIVE Publish(_, _, _)
Publish(sc, code, handlers) ==
    IF handlers = 0 THEN sc
    ELSE Publish(OnDetectedHandler(sc, code), code, handlers - 1)

\* barcode.js startBarcodeScanner: the set is emptied, a pending timer is
\* cancelled (detectionTimer keeps its handle), Quagga.init is under way and
\* one more handler is registered
startBarcodeScanner(sc) ==
    [sc EXCEPT !.detectedBarcodes = <<>>,
               !.timeouts = IF sc.detectionTimer # NoTimer
                            THEN ClearTimeout(@, sc.detectionTimer) ELSE @,
               !.quagga = [@ EXCEPT !.inits = @ + 1, !.handlers = @ + 1]]

\* barcode.js stopBarcodeScanner
stopBarcodeScanner(sc) ==
    [sc EXCEPT !.timeouts = IF sc.detectionTimer # NoTimer
                            THEN ClearTimeout(@, sc.detectionTimer) ELSE @,
               !.detectionTimer = NoTimer,
               !.detectedBarcodes = <<>>,
               !.quagga = QuaggaStop(@)]

\* the module, the timers and the decoder after a step that ended as `sc`
ScannerBecomes(sc) ==
    /\ detectedBarcodes' = sc.detectedBarcodes
    /\ detectionTimer' = sc.detectionTimer
    /\ timeouts' = sc.timeouts
    /\ quagga' = sc.quagga

\* nothing was captured yet: no code heard since a start, no valid detection
\* within the quiet period, no batch handed over, no error reported, and no
\* Quagga.init made by a start
NoCapture ==
    [heard |-> <<>>, quiet |-> QuietPeriod, sinks |-> <<>>, onErrors |-> 0,
     init |-> "none"]

\* the scanner as the page loads
InitScanner ==
    /\ detectedBarcodes = <<>>
    /\ detectionTimer = NoTimer
    /\ timeouts = {}
    /\ quagga = QuaggaIdle
    /\ capture = NoCapture

----------------------------------------------------------------------------
(* The calls the model makes *)

\* a bookData with every property missing
NoData ==
    [title |-> Undefined, author |-> Undefined, status |-> Undefined,
     genre |-> Undefined, fictionType |-> Undefined, difficulty |-> Undefined,
     formats |-> Undefined, notes |-> Undefined, isbn |-> Undefined,
     publicationDate |-> Undefined, acquiredDate |-> Undefined,
     coverUrl |-> Undefined]

\* a bookData that passes every rule
ValidData ==
    [NoData EXCEPT
        !.title = <<"a">>, !.author = <<"x">>,
        !.status = <<"u", "n", "r", "e", "a", "d">>,
        !.genre = <<"H", "i", "s", "t", "o", "r", "y">>,
        !.fictionType = <<"N", "o", "n", "f", "i", "c", "t", "i", "o", "n">>,
        !.difficulty = <<"E", "a", "s", "y">>,
        !.formats = <<"physical">>,
        !.notes = EmptyString, !.isbn = EmptyString,
        !.publicationDate = EmptyString, !.acquiredDate = EmptyString,
        !.coverUrl = EmptyString]

\* the records importBooks is given: one equal to ValidData, one with only a
\* title and a repeated format (every other field defaulted), one that fails
\* validation after defaulting
ImportValid == ValidData
ImportBare == [NoData EXCEPT !.title = <<"c">>, !.formats = <<"kindle", "kindle">>]
ImportInvalid == [ValidData EXCEPT !.title = <<"d">>, !.formats = <<>>]

\* the bookData addBook and updateBook are called with: two valid ones and an
\* invalid one that violates four rules.  The second valid one has a title and
\* notes to trim and a repeated format, and is stored as importBooks stores
\* ImportBare, which keeps the collections the model reaches few.
BookInputs ==
    { ValidData,
      [completeBookData(ImportBare) EXCEPT !.title = <<" ", "c", " ">>,
                                           !.notes = <<" ">>],
      [ValidData EXCEPT !.author = Undefined, !.fictionType = EmptyString,
                        !.formats = <<>>, !.isbn = <<"1", "2">>] }

\* the arrays importBooks is given
ImportBatches ==
    { <<ImportValid>>, <<ImportBare, ImportValid>>,
      <<ImportInvalid, ImportBare>>, <<ImportBare, ImportBare>> }

\* the ids the model asks for: those of the books in the collection, and the
\* next one, which no book has
KnownIds == { books[i].id : i \in 1..Len(books) } \cup {nextId}

NoResult == [imported |-> 0, skipped |-> 0, total |-> 0]

\* no DataStore call was made yet
NoCall ==
    [op |-> "none", outcome |-> "none", errors |-> <<>>, ret |-> <<>>,
     result |-> NoResult]

\* the store as the operators take it
Store == [books |-> books, storage |-> storage, nextId |-> nextId]

\* the record of a call that ended as `out`
Called(op, out, result) ==
    [op |-> op, outcome |-> out.outcome, errors |-> out.errors,
     ret |-> out.ret, result |-> result]

\* the store after a call that ended as `out`; generateId and
\* getCurrentTimestamp are read together, and each read of the clock is later
\* than the one before
StoreBecomes(out, thrown) ==
    /\ out.nextId <= MaxIds + 1
    /\ faults + thrown <= MaxFaults
    /\ books' = out.books
    /\ storage' = out.storage
    /\ nextId' = out.nextId
    /\ clock' = clock + (out.nextId - nextId)
    /\ faults' = faults + thrown

Thrown(out) == IF out.outcome = "PersistenceError" THEN 1 ELSE 0

ClosedModal == [active |-> FALSE, mode |-> "", bookId |-> 0]

\* the page after it has loaded: nothing typed, nothing open, nothing awaited
InitUI ==
    /\ form = EmptyForm
    /\ modal = ClosedModal
    /\ isbnInput = EmptyString
    /\ isbnLookupBtnDisabled = FALSE
    /\ lookups = <<>>
    /\ barcodeModal = FALSE
    /\ prompt = <<>>
    /\ InitScanner

\* construction on an empty localStorage: books = [], loadFromStorage reads null
InitStore ==
    /\ books = <<>>
    /\ storage = NoItem
    /\ nextId = 1
    /\ clock = 0
    /\ faults = 0
    /\ last = NoCall

\* a call dataStore.addBook(bookData)
AddBookCall(bookData, quotaOk) ==
    LET out == addBook(Store, bookData, clock, quotaOk)
    IN  /\ StoreBecomes(out, Thrown(out))
        /\ last' = Called("addBook", out, NoResult)

\* a call dataStore.updateBook(id, bookData)
UpdateBookCall(id, bookData, quotaOk) ==
    LET out == updateBook(Store, id, bookData, quotaOk)
    IN  /\ StoreBecomes(out, Thrown(out))
        /\ last' = Called("updateBook", out, NoResult)

\* a call dataStore.deleteBook(id)
DeleteBookCall(id, quotaOk) ==
    LET out == deleteBook(Store, id, quotaOk)
    IN  /\ StoreBecomes(out, Thrown(out))
        /\ last' = Called("deleteBook", out, NoResult)

\* a call dataStore.importBooks(importedBooks) with an array
ImportBooksCall(importedBooks, quota) ==
    LET out == importBooks(Store, importedBooks, clock, quota)
    IN  /\ StoreBecomes(out, out.thrown)
        /\ last' = Called("importBooks", out, out.result)

\* whether localStorage.setItem finds room: it may throw while the model's
\* bound on throws is not used up
Quota == IF faults < MaxFaults THEN BOOLEAN ELSE {TRUE}

AddBook ==
    \E bookData \in BookInputs, quotaOk \in Quota :
        AddBookCall(bookData, quotaOk) /\ UNCHANGED <<uiVars, scanVars>>

UpdateBook ==
    \E id \in KnownIds, bookData \in BookInputs, quotaOk \in Quota :
        UpdateBookCall(id, bookData, quotaOk) /\ UNCHANGED <<uiVars, scanVars>>

DeleteBook ==
    \E id \in KnownIds, quotaOk \in Quota :
        DeleteBookCall(id, quotaOk) /\ UNCHANGED <<uiVars, scanVars>>

ImportBooks ==
    \E importedBooks \in ImportBatches :
        \E quota \in [1..Len(importedBooks) -> Quota] :
            ImportBooksCall(importedBooks, quota) /\ UNCHANGED <<uiVars, scanVars>>

Init == InitStore /\ InitUI

Next == AddBook \/ UpdateBook \/ DeleteBook \/ ImportBooks

Spec == Init /\ [][Next]_vars

----------------------------------------------------------------------------
(* importBooks on richer batches *)

\* the records of the batches: ImportValid, the same title and author in
\* capitals, ImportBare, ImportInvalid, and a null element of the array
ImportShout == [ValidData EXCEPT !.title = <<"A">>, !.author = <<"X">>]

ImportRecords == { ImportValid, ImportShout, ImportBare, ImportInvalid, Null }

\* the arrays importBooks is given: every one of one or two of the records
ImportRecordBatches ==
    { <<a>> : a \in ImportRecords }
        \cup { <<a, b>> : a \in ImportRecords, b \in ImportRecords }

ImportRecordBatch ==
    \E importedBooks \in ImportRecordBatches :
        \E quota \in [1..Len(importedBooks) -> Quota] :
            ImportBooksCall(importedBooks, quota) /\ UNCHANGED <<uiVars, scanVars>>

NextImport == AddBook \/ DeleteBook \/ ImportRecordBatch

SpecImport == Init /\ [][NextImport]_vars

----------------------------------------------------------------------------
(* loadFromStorage on what the backend may hold *)

\* a book an earlier session has stored
EarlierBook == WithIdentity(MutableFields(ValidData), 0, 0 - 1)

\* what localStorage holds when the page loads: nothing, the empty text, a
\* text that is not JSON, the JSON text of an object, an item whose read is
\* refused, the empty array, an array with a book
StoredItems ==
    { NoItem, EmptyItem, MalformedItem, NonArrayItem, UnreadableItem,
      JSONStringify(<<>>), JSONStringify(<<EarlierBook>>) }

\* the DataStore constructed on such a backend: books = [], loadFromStorage()
InitLoad ==
    /\ storage \in StoredItems
    /\ books = loadFromStorage(<<>>, storage).books
    /\ nextId = 1
    /\ clock = 0
    /\ faults = 0
    /\ last = NoCall
    /\ InitUI

\* a call dataStore.loadFromStorage(), as loadAndRender makes it
LoadFromStorageCall ==
    LET loaded == loadFromStorage(books, storage)
    IN  /\ books' = loaded.books
        /\ last' = [NoCall EXCEPT !.op = "loadFromStorage",
                                  !.outcome = IF loaded.thrown THEN "Error"
                                              ELSE "ok"]
        /\ UNCHANGED <<storage, nextId, clock, faults>>

LoadFromStorage == LoadFromStorageCall /\ UNCHANGED <<uiVars, scanVars>>

NextLoad == AddBook \/ DeleteBook \/ LoadFromStorage

SpecLoad == InitLoad /\ [][NextLoad]_vars

----------------------------------------------------------------------------
(* filterBooks and sortBooks *)

\* the code units of the characters the model uses, in ascending order
CodeUnits ==
    <<"\t", " ", ",", "-", "/", "0", "1", "2", "3", "4", "5", "6", "7", "8", "9",
      "A", "B", "C", "D", "E", "F", "G", "H", "I", "J", "K", "L", "M",
      "N", "O", "P", "Q", "R", "S", "T", "U", "V", "W", "X", "Y", "Z",
      "a", "b", "c", "d", "e", "f", "g", "h", "i", "j", "k", "l", "m",
      "n", "o", "p", "q", "r", "s", "t", "u", "v", "w", "x", "y", "z">>

CodeUnit(c) == CHOOSE i \in 1..Len(CodeUnits) : CodeUnits[i] = c

\* a < b on two strings: by the first code unit in which they differ, a
\* proper prefix being the smaller
RECURSIVE StringLess(_, _)
StringLess(a, b) ==
    IF b = <<>> THEN FALSE
    ELSE IF a = <<>> THEN TRUE
    ELSE IF Head(a) = Head(b) THEN StringLess(Tail(a), Tail(b))
    ELSE CodeUnit(Head(a)) < CodeUnit(Head(b))

\* the text of a format value
FormatText(format) ==
    CASE format = "physical" -> <<"p", "h", "y", "s", "i", "c", "a", "l">>
      [] format = "kindle"   -> <<"k", "i", "n", "d", "l", "e">>
      [] format = "audible"  -> <<"a", "u", "d", "i", "b", "l", "e">>

\* array.includes(value)
Contains(array, value) == \E i \in 1..Len(array) : array[i] = value

\* the search test of filterBooks and searchBooks on one book
MatchesQuery(book, lowerQuery) ==
    \/ Includes(ToLowerCase(book.title), lowerQuery)
    \/ Includes(ToLowerCase(book.author), lowerQuery)
    \/ Includes(ToLowerCase(book.genre), lowerQuery)
    \/ Includes(ToLowerCase(book.notes), lowerQuery)
    \/ Includes(ToLowerCase(book.fictionType), lowerQuery)

\* filterBooks with the format filter passing a book that has any of the
\* listed formats
filterBooks_AnyFormat(bs, criteria) ==
    LET byFictionType ==
            IF Truthy(criteria.fictionType)
            THEN SelectSeq(bs, LAMBDA book :
                                 book.fictionType = criteria.fictionType)
            ELSE bs
        byGenre ==
            IF Truthy(criteria.genre)
            THEN SelectSeq(byFictionType, LAMBDA book : book.genre = criteria.genre)
            ELSE byFictionType
        byStatus ==
            IF Truthy(criteria.status)
            THEN SelectSeq(byGenre, LAMBDA book : book.status = criteria.status)
            ELSE byGenre
        byFormats ==
            IF criteria.formats # Undefined /\ Len(criteria.formats) > 0
            THEN SelectSeq(byStatus, LAMBDA book :
                    \E i \in 1..Len(criteria.formats) :
                        Contains(book.formats, criteria.formats[i]))
            ELSE byStatus
    IN  IF Truthy(criteria.search)
        THEN LET lowerQuery == Trim(ToLowerCase(criteria.search))
             IN  SelectSeq(byFormats, LAMBDA book : MatchesQuery(book, lowerQuery))
        ELSE byFormats

\* filterBooks(criteria) on the collection bs: a copy of the collection,
\* narrowed by each criterion that is set, one after the other
filterBooks(bs, criteria) ==
    LET byFictionType ==
            IF Truthy(criteria.fictionType)
            THEN SelectSeq(bs, LAMBDA book :
                                 book.fictionType = criteria.fictionType)
            ELSE bs
        byGenre ==
            IF Truthy(criteria.genre)
            THEN SelectSeq(byFictionType, LAMBDA book : book.genre = criteria.genre)
            ELSE byFictionType
        byStatus ==
            IF Truthy(criteria.status)
            THEN SelectSeq(byGenre, LAMBDA book : book.status = criteria.status)
            ELSE byGenre
        byFormats ==
            IF criteria.formats # Undefined /\ Len(criteria.formats) > 0
            THEN SelectSeq(byStatus, LAMBDA book :
                    \A i \in 1..Len(criteria.formats) :
                        Contains(book.formats, criteria.formats[i]))
            ELSE byStatus
    IN  IF Truthy(criteria.search)
        THEN LET lowerQuery == Trim(ToLowerCase(criteria.search))
             IN  SelectSeq(byFormats, LAMBDA book : MatchesQuery(book, lowerQuery))
        ELSE byFormats

\* the value sortBooks compares a book by: the named field, for formats the
\* formats joined with ', ', lowercased
SortValue(book, sortBy) ==
    IF sortBy = "formats"
    THEN ToLowerCase(Join([i \in 1..Len(book.formats) |->
                              FormatText(book.formats[i])], <<",", " ">>))
    ELSE ToLowerCase(book[sortBy])

\* the comparator sortBooks gives to Array.prototype.sort
Compare(a, b, sortBy, ascending) ==
    LET aVal == SortValue(a, sortBy)
        bVal == SortValue(b, sortBy)
    IN  IF StringLess(aVal, bVal) THEN (IF ascending THEN 0 - 1 ELSE 1)
        ELSE IF StringLess(bVal, aVal) THEN (IF ascending THEN 1 ELSE 0 - 1)
        ELSE 0

\* Array.prototype.sort is stable: the element goes behind the elements of
\* the sorted part that do not compare greater than it
PlaceInOrder(sorted, x, sortBy, ascending) ==
    LET behind == { i \in 1..Len(sorted) :
                      \A j \in i..Len(sorted) :
                          Compare(sorted[j], x, sortBy, ascending) > 0 }
        at == IF behind = {} THEN Len(sorted) + 1
              ELSE CHOOSE i \in behind : \A j \in behind : i <= j
    IN  SubSeq(sorted, 1, at - 1) \o <<x>> \o SubSeq(sorted, at, Len(sorted))

RECURSIVE ArraySort(_, _, _)
ArraySort(array, sortBy, ascending) ==
    IF array = <<>> THEN <<>>
    ELSE PlaceInOrder(ArraySort(SubSeq(array, 1, Len(array) - 1), sortBy, ascending),
                      array[Len(array)], sortBy, ascending)

\* sortBooks sorting the array it is given in place
sortBooks_InPlace(array, sortBy, ascending) ==
    [input  |-> ArraySort(array, sortBy, ascending),
     sorted |-> ArraySort(array, sortBy, ascending)]

\* sortBooks(books, sortBy, ascending): a copy of the array is sorted; the
\* result is the array given, as the call leaves it, and the array returned
sortBooks(array, sortBy, ascending) ==
    [input  |-> array,
     sorted |-> ArraySort(array, sortBy, ascending)]

\* the books the queries run on
QueryInputs ==
    { [ValidData EXCEPT !.title = <<"A", "b">>, !.author = <<"x">>],
      [ValidData EXCEPT !.title = <<"b">>, !.author = <<"Y">>, !.genre = <<"F", "a", "n", "t", "a", "s", "y">>,
                        !.fictionType = Fiction, !.status = <<"r", "e", "a", "d">>,
                        !.formats = <<"physical", "kindle">>,
                        !.notes = <<"a", " ", "b">>],
      [ValidData EXCEPT !.title = <<"c">>, !.author = <<"X">>,
                        !.formats = <<"kindle">>] }

\* the criteria filterBooks is given: each select set or not, no format, one
\* or two, and a search text that is empty, capital, within spaces, or part
\* of a genre
FilterCriteria ==
    [fictionType : {EmptyString, Fiction},
     genre       : {EmptyString, <<"H", "i", "s", "t", "o", "r", "y">>},
     status      : {EmptyString, <<"u", "n", "r", "e", "a", "d">>},
     formats     : {<<>>, <<"physical">>, <<"physical", "kindle">>},
     search      : {EmptyString, <<"B">>, <<" ", "b", " ">>, <<"f", "a", "n">>}]

\* the columns the table is sorted by
SortFields == {"title", "author", "genre", "formats"}

AddQueryBook ==
    \E bookData \in QueryInputs : AddBookCall(bookData, TRUE) /\ UNCHANGED <<uiVars, scanVars>>

\* a call dataStore.filterBooks(criteria)
FilterBooksCall(criteria) ==
    /\ last' = [NoCall EXCEPT !.op = "filterBooks", !.outcome = "ok",
                              !.ret = filterBooks(books, criteria)]
    /\ UNCHANGED <<books, storage, nextId, clock, faults>>

FilterBooks ==
    \E criteria \in FilterCriteria : FilterBooksCall(criteria) /\ UNCHANGED <<uiVars, scanVars>>

\* a call dataStore.sortBooks(array, sortBy, ascending) with the collection
\* itself for the array
SortBooksCall(sortBy, ascending) ==
    LET call == sortBooks(books, sortBy, ascending)
    IN  /\ books' = call.input
        /\ last' = [NoCall EXCEPT !.op = "sortBooks", !.outcome = "ok",
                                  !.ret = call.sorted]
        /\ UNCHANGED <<storage, nextId, clock, faults>>

SortBooks ==
    \E sortBy \in SortFields, ascending \in BOOLEAN :
        SortBooksCall(sortBy, ascending) /\ UNCHANGED <<uiVars, scanVars>>

NextQuery == AddQueryBook \/ DeleteBook \/ FilterBooks \/ SortBooks

SpecQuery == Init /\ [][NextQuery]_vars

----------------------------------------------------------------------------
(* validateBook on candidates *)

\* the candidates validateBook is given: each field missing, empty or blank,
\* or filled in; the isbn also with hyphens, with thirteen digits, too short,
\* with a letter, and with eleven digits
Candidates ==
    [title           : {Undefined, <<" ">>, <<"a">>},
     author          : {Undefined, <<"x">>},
     genre           : {EmptyString, <<"H", "i", "s", "t", "o", "r", "y">>},
     fictionType     : {Undefined, Nonfiction},
     difficulty      : {EmptyString, <<"E", "a", "s", "y">>},
     status          : {Undefined, <<"u", "n", "r", "e", "a", "d">>},
     formats         : {Undefined, <<>>, <<"physical">>},
     isbn            : {Undefined, EmptyString, <<" ">>, <<"0", "-", "3", "0", "6", "-", "4", "0", "6", "1", "5", "-", "2">>,
                        <<"9", "7", "8", "0", "3", "0", "6", "4", "0", "6", "1", "5", "7">>, <<"1", "2", "3">>, <<"0", "3", "0", "6", "4", "0", "6", "1", "5", "X">>,
                        <<"0", "3", "0", "6", "4", "0", "6", "1", "5", "2", "1">>},
     notes           : {EmptyString},
     publicationDate : {EmptyString},
     acquiredDate    : {EmptyString},
     coverUrl        : {EmptyString}]

\* a call validateBook(book): nothing but the returned value comes of it
ValidateBookCall(book) ==
    LET validation == validateBook(book)
    IN  /\ last' = [NoCall EXCEPT !.op = "validateBook",
                                  !.outcome = IF validation.isValid THEN "ok"
                                              ELSE "invalid",
                                  !.errors = validation.errors]
        /\ UNCHANGED <<books, storage, nextId, clock, faults>>

ValidateBook ==
    \E book \in Candidates : ValidateBookCall(book) /\ UNCHANGED <<uiVars, scanVars>>

NextValidate == ValidateBook

SpecValidate == Init /\ [][NextValidate]_vars

----------------------------------------------------------------------------
(* The lookup and duplicate workflow as the user drives it *)

\* at most MaxLookups calls of lookupISBN await their answer at a time
MaxLookups == 2
\* the user saves the form while the collection holds fewer than MaxShelf books
MaxShelf == 2

\* what the user puts into the form: the fields a lookup leaves open, with
\* the physical format or with the kindle format
FormEdits ==
    { [bookGenre |-> <<"H", "i", "s", "t", "o", "r", "y">>, bookFictionType |-> Nonfiction,
       bookDifficulty |-> <<"E", "a", "s", "y">>, bookStatus |-> <<"u", "n", "r", "e", "a", "d">>,
       formatPhysical |-> TRUE, formatKindle |-> FALSE],
      [bookGenre |-> <<"H", "i", "s", "t", "o", "r", "y">>, bookFictionType |-> Nonfiction,
       bookDifficulty |-> <<"E", "a", "s", "y">>, bookStatus |-> <<"u", "n", "r", "e", "a", "d">>,
       formatPhysical |-> FALSE, formatKindle |-> TRUE] }

\* the form with the fields of an edit overwritten
ApplyEdit(f, edit) ==
    [name \in DOMAIN f |-> IF name \in DOMAIN edit THEN edit[name] ELSE f[name]]

\* what the user types into the ISBN input: ten digits with hyphens and
\* spaces around them
ISBNInputs == { <<" ", "0", "-", "3", "0", "6", "-", "4", "0", "6", "1", "5", "-", "2", " ">> }

\* the batches the barcode scanner hands to its sink
ScanBatches == { <<<<"0", "3", "0", "6", "4", "0", "6", "1", "5", "2">>, <<"9", "7", "8", "0", "3", "0", "6", "4", "0", "6", "1", "5", "7">>>> }

\* the book the lookup service knows, its title and author with spaces around
\* them, as the service sends it
ServiceBooks ==
    { [title |-> <<"C", " ">>, author |-> <<" ", "y">>, isbn |-> <<"0", "3", "0", "6", "4", "0", "6", "1", "5", "2">>,
       publicationDate |-> <<"1", "9", "9", "9">>, coverUrl |-> Undefined,
       categories |-> <<<<"H", "i", "s", "t", "o", "r", "y">>>>, source |-> "Google Books"] }

Replies == { Found(book) : book \in ServiceBooks } \cup {NotFound, TransportError}

\* confirm() blocks the page: while a duplicate prompt is open no other
\* handler runs
Unblocked == prompt = <<>>

\* app.js handleAddBook: openBookModal() in add mode resets the form
HandleAddBook ==
    /\ Unblocked
    /\ UNCHANGED scanVars
    /\ modal' = [active |-> TRUE, mode |-> "add", bookId |-> 0]
    /\ form' = EmptyForm
    /\ UNCHANGED <<storeVars, isbnInput, isbnLookupBtnDisabled, lookups,
                   barcodeModal, prompt>>

\* ui.js closeBookModal, from the close button, the backdrop or Cancel
CloseBookModal ==
    /\ Unblocked
    /\ UNCHANGED scanVars
    /\ modal.active
    /\ modal' = [modal EXCEPT !.active = FALSE]
    /\ UNCHANGED <<storeVars, form, isbnInput, isbnLookupBtnDisabled, lookups,
                   barcodeModal, prompt>>

\* the user fills fields of the open form in
UserEditsForm ==
    /\ Unblocked
    /\ UNCHANGED scanVars
    /\ modal.active
    /\ \E edit \in FormEdits : form' = ApplyEdit(form, edit)
    /\ UNCHANGED <<storeVars, modal, isbnInput, isbnLookupBtnDisabled, lookups,
                   barcodeModal, prompt>>

\* app.js handleSaveBook: updateBook in edit mode and addBook otherwise; after
\* a success the modal closes and loadAndRender reloads the collection
HandleSaveBookCall(quotaOk) ==
    LET formData == getBookFormData(form)
        edit == modal.mode = "edit" /\ modal.bookId # 0
        out  == IF edit
                THEN updateBook(Store, modal.bookId, formData, quotaOk)
                ELSE addBook(Store, formData, clock, quotaOk)
    IN  /\ StoreBecomes([out EXCEPT !.books =
                            IF out.outcome = "ok"
                            THEN loadFromStorage(out.books, out.storage).books
                            ELSE @],
                        Thrown(out))
        /\ last' = Called(IF edit THEN "updateBook" ELSE "addBook", out, NoResult)
        /\ modal' = IF out.outcome = "ok" THEN [modal EXCEPT !.active = FALSE]
                    ELSE modal
        /\ UNCHANGED <<form, isbnInput, isbnLookupBtnDisabled, lookups,
                       barcodeModal, prompt>>

HandleSaveBook ==
    /\ Unblocked
    /\ UNCHANGED scanVars
    /\ modal.active
    /\ Len(books) < MaxShelf
    /\ \E quotaOk \in Quota : HandleSaveBookCall(quotaOk)

\* the user types into the ISBN input
UserTypesISBN ==
    /\ Unblocked
    /\ UNCHANGED scanVars
    /\ \E text \in ISBNInputs : isbnInput' = text
    /\ UNCHANGED <<storeVars, form, modal, isbnLookupBtnDisabled, lookups,
                   barcodeModal, prompt>>

\* a call of lookupISBN that awaits its answer: for the manual lookup the one
\* ISBN, for the barcode sink the batch and the position of the code asked for
Awaited(flow, isbns, i) == [flow |-> flow, isbns |-> isbns, i |-> i]

\* the awaited calls without the k-th
Settled(k) == SubSeq(lookups, 1, k - 1) \o SubSeq(lookups, k + 1, Len(lookups))

\* app.js handleISBNLookup up to its await: an empty or malformed ISBN ends
\* it, any other disables the button and asks the service
HandleISBNLookup ==
    LET isbn == Trim(isbnInput)
        validation == validateISBN(isbn)
    IN  IF ~Truthy(isbn) \/ ~validation.valid
        THEN UNCHANGED vars
        ELSE /\ Len(lookups) < MaxLookups
             /\ isbnLookupBtnDisabled' = TRUE
             /\ lookups' = Append(lookups, Awaited("isbn", <<validation.isbn>>, 1))
             /\ UNCHANGED <<storeVars, form, modal, isbnInput, barcodeModal,
                            prompt>>

\* a click on the lookup button, which a disabled button does not deliver
ClickISBNLookup ==
    /\ Unblocked
    /\ UNCHANGED scanVars
    /\ ~isbnLookupBtnDisabled
    /\ HandleISBNLookup

\* the Enter key in the ISBN input
EnterISBNLookup ==
    /\ Unblocked
    /\ UNCHANGED scanVars
    /\ HandleISBNLookup

\* the duplicate prompt confirm() shows: which flow raised it, the looked-up
\* book and the existing one
Prompted(flow, scannedBookData, existingBook) ==
    <<[flow |-> flow, scanned |-> scannedBookData, existing |-> existingBook]>>

\* handleISBNLookup without its finally block: an Error of lookupISBN ends it
\* with the button as it was
ISBNLookupReturns_NoFinally(k, reply) ==
    LET call == lookupISBN(lookups[k].isbns[1], reply)
    IN  /\ lookups[k].flow = "isbn"
        /\ lookups' = Settled(k)
        /\ IF call.thrown
           THEN UNCHANGED <<storeVars, form, modal, isbnInput,
                            isbnLookupBtnDisabled, barcodeModal, prompt>>
           ELSE IF call.bookData = <<>>
           THEN /\ isbnLookupBtnDisabled' = FALSE
                /\ UNCHANGED <<storeVars, form, modal, isbnInput, barcodeModal,
                               prompt>>
           ELSE LET bookData == call.bookData[1]
                    existingBook ==
                        findDuplicate(books, bookData.title, bookData.author)
                IN  IF existingBook # <<>>
                    THEN /\ prompt' = Prompted("isbn", bookData, existingBook[1])
                         /\ UNCHANGED <<storeVars, form, modal, isbnInput,
                                        isbnLookupBtnDisabled, barcodeModal>>
                    ELSE /\ form' = autofillBookForm(form, bookData,
                                        autoClassifyGenre(bookData.categories))
                         /\ isbnInput' = EmptyString
                         /\ isbnLookupBtnDisabled' = FALSE
                         /\ UNCHANGED <<storeVars, modal, barcodeModal, prompt>>

\* app.js handleISBNLookup from the answer to its k-th awaited call on: to
\* the end, or to the duplicate prompt
ISBNLookupReturns(k, reply) ==
    LET call == lookupISBN(lookups[k].isbns[1], reply)
    IN  /\ lookups[k].flow = "isbn"
        /\ lookups' = Settled(k)
        /\ IF call.thrown
           THEN /\ isbnLookupBtnDisabled' = FALSE
                /\ UNCHANGED <<storeVars, form, modal, isbnInput, barcodeModal,
                               prompt>>
           ELSE IF call.bookData = <<>>
           THEN /\ isbnLookupBtnDisabled' = FALSE
                /\ UNCHANGED <<storeVars, form, modal, isbnInput, barcodeModal,
                               prompt>>
           ELSE LET bookData == call.bookData[1]
                    existingBook ==
                        findDuplicate(books, bookData.title, bookData.author)
                IN  IF existingBook # <<>>
                    THEN /\ prompt' = Prompted("isbn", bookData, existingBook[1])
                         /\ UNCHANGED <<storeVars, form, modal, isbnInput,
                                        isbnLookupBtnDisabled, barcodeModal>>
                    ELSE /\ form' = autofillBookForm(form, bookData,
                                        autoClassifyGenre(bookData.categories))
                         /\ isbnInput' = EmptyString
                         /\ isbnLookupBtnDisabled' = FALSE
                         /\ UNCHANGED <<storeVars, modal, barcodeModal, prompt>>

ISBNLookupAnswered ==
    /\ Unblocked
    /\ UNCHANGED scanVars
    /\ \E k \in 1..Len(lookups), reply \in Replies : ISBNLookupReturns(k, reply)

\* app.js handleBarcodeScanning: the barcode modal opens and the scanner starts
HandleBarcodeScanning ==
    /\ Unblocked
    /\ UNCHANGED scanVars
    /\ barcodeModal' = TRUE
    /\ UNCHANGED <<storeVars, form, modal, isbnInput, isbnLookupBtnDisabled,
                   lookups, prompt>>

\* the sink of handleBarcodeScanning up to its first await: the scanner
\* stops, the modal closes, the first code of the batch is asked for
BarcodeSink(isbns) ==
    /\ barcodeModal
    /\ Len(lookups) < MaxLookups
    /\ barcodeModal' = FALSE
    /\ lookups' = Append(lookups, Awaited("barcode", isbns, 1))
    /\ UNCHANGED <<storeVars, form, modal, isbnInput, isbnLookupBtnDisabled,
                   prompt>>

BarcodesDetected ==
    /\ Unblocked
    /\ UNCHANGED scanVars
    /\ \E isbns \in ScanBatches : BarcodeSink(isbns)

\* the sink from the answer to its awaited call on: an Error ends it (nothing
\* catches it), no book moves it to the next code or, after the last code, to
\* the form's ISBN field, a book ends it at the duplicate prompt or the form
SinkLookupReturns(k, reply) ==
    LET isbns == lookups[k].isbns
        i     == lookups[k].i
        call  == lookupISBN(isbns[i], reply)
    IN  /\ lookups[k].flow = "barcode"
        /\ IF call.thrown
           THEN /\ lookups' = Settled(k)
                /\ UNCHANGED <<storeVars, form, modal, isbnInput,
                               isbnLookupBtnDisabled, barcodeModal, prompt>>
           ELSE IF call.bookData = <<>>
           THEN IF i < Len(isbns)
                THEN /\ lookups' = [lookups EXCEPT ![k].i = i + 1]
                     /\ UNCHANGED <<storeVars, form, modal, isbnInput,
                                    isbnLookupBtnDisabled, barcodeModal,
                                    prompt>>
                ELSE /\ lookups' = Settled(k)
                     /\ form' = [form EXCEPT !.bookISBN = isbns[1]]
                     /\ UNCHANGED <<storeVars, modal, isbnInput,
                                    isbnLookupBtnDisabled, barcodeModal, prompt>>
           ELSE LET bookData == call.bookData[1]
                    existingBook ==
                        findDuplicate(books, bookData.title, bookData.author)
                IN  /\ lookups' = Settled(k)
                    /\ IF existingBook # <<>>
                       THEN /\ prompt' = Prompted("barcode", bookData,
                                                  existingBook[1])
                            /\ UNCHANGED <<storeVars, form, modal, isbnInput,
                                           isbnLookupBtnDisabled, barcodeModal>>
                       ELSE /\ form' = autofillBookForm(form, bookData,
                                           autoClassifyGenre(bookData.categories))
                            /\ UNCHANGED <<storeVars, modal, isbnInput,
                                           isbnLookupBtnDisabled, barcodeModal,
                                           prompt>>

SinkLookupAnswered ==
    /\ Unblocked
    /\ UNCHANGED scanVars
    /\ \E k \in 1..Len(lookups), reply \in Replies : SinkLookupReturns(k, reply)

\* window.location.reload() after the call that ended as `out`: the page as it
\* loads, with a DataStore constructed from the backend
PageReloads(out) ==
    /\ StoreBecomes([out EXCEPT !.books = loadFromStorage(<<>>, out.storage).books],
                    Thrown(out))
    /\ form' = EmptyForm
    /\ modal' = ClosedModal
    /\ isbnInput' = EmptyString
    /\ isbnLookupBtnDisabled' = FALSE
    /\ lookups' = <<>>
    /\ barcodeModal' = FALSE
    /\ prompt' = <<>>
    /\ ScannerBecomes([detectedBarcodes |-> <<>>, detectionTimer |-> NoTimer,
                       timeouts |-> {}, quagga |-> QuaggaIdle])
    /\ capture' = NoCapture

\* the user answers the duplicate prompt: handleDuplicate from confirm() on,
\* then the rest of the flow that raised it (handleISBNLookup clears the ISBN
\* input and enables the button again, the sink returns)
ConfirmAnswered(answer, quotaOk) ==
    LET p == prompt[1]
        handled == handleDuplicate(Store, form, p.scanned, p.existing,
                                   answer, quotaOk)
    IN  /\ prompt # <<>>
        /\ last' = IF handled.out.outcome = "none" THEN last
                   ELSE Called("updateBook", handled.out, NoResult)
        /\ IF handled.reload
           THEN PageReloads(handled.out)
           ELSE /\ StoreBecomes(handled.out, Thrown(handled.out))
                /\ form' = handled.form
                /\ prompt' = <<>>
                /\ IF p.flow = "isbn"
                   THEN /\ isbnInput' = EmptyString
                        /\ isbnLookupBtnDisabled' = FALSE
                   ELSE UNCHANGED <<isbnInput, isbnLookupBtnDisabled>>
                /\ UNCHANGED <<modal, lookups, barcodeModal, scanVars>>

DuplicatePromptAnswered ==
    \E answer \in BOOLEAN, quotaOk \in Quota : ConfirmAnswered(answer, quotaOk)

InitLookup == InitStore /\ InitUI

NextLookup ==
    \/ HandleAddBook
    \/ CloseBookModal
    \/ UserEditsForm
    \/ HandleSaveBook
    \/ UserTypesISBN
    \/ ClickISBNLookup
    \/ EnterISBNLookup
    \/ ISBNLookupAnswered
    \/ HandleBarcodeScanning
    \/ BarcodesDetected
    \/ SinkLookupAnswered
    \/ DuplicatePromptAnswered

SpecLookup == InitLookup /\ [][NextLookup]_vars

----------------------------------------------------------------------------
(* autoClassifyGenre on the categories of looked-up books *)

\* the categories the lookup service sends: none, one that no rule knows,
\* one or two for each rule, and lists to which several rules apply
CategoryLists ==
    { <<>>, <<<<"C", "o", "o", "k", "i", "n", "g">>>>,
      <<<<"M", "y", "s", "t", "e", "r", "y">>, <<"T", "h", "r", "i", "l", "l", "e", "r">>>>, <<<<"D", "e", "t", "e", "c", "t", "i", "v", "e">>>>,
      <<<<"L", "i", "t", "e", "r", "a", "r", "y", " ", "C", "r", "i", "t", "i", "c", "i", "s", "m">>, <<"H", "i", "s", "t", "o", "r", "y">>>>, <<<<"E", "n", "g", "l", "i", "s", "h", " ", "l", "i", "t", "e", "r", "a", "t", "u", "r", "e">>>>,
      <<<<"S", "c", "i", "e", "n", "c", "e", " ", "F", "i", "c", "t", "i", "o", "n">>>>, <<<<"S", "c", "i", "-", "F", "i">>>>, <<<<"F", "i", "c", "t", "i", "o", "n">>, <<"S", "c", "i", "e", "n", "c", "e">>>>,
      <<<<"F", "a", "n", "t", "a", "s", "y">>>>, <<<<"Y", "o", "u", "n", "g", " ", "A", "d", "u", "l", "t", " ", "F", "i", "c", "t", "i", "o", "n">>, <<"F", "a", "n", "t", "a", "s", "y">>>>,
      <<<<"R", "o", "m", "a", "n", "c", "e">>>>, <<<<"C", "o", "m", "i", "c", "s">>, <<"R", "o", "m", "a", "n", "c", "e">>>>,
      <<<<"H", "i", "s", "t", "o", "r", "i", "c", "a", "l", " ", "F", "i", "c", "t", "i", "o", "n">>>>, <<<<"H", "o", "r", "r", "o", "r">>>>,
      <<<<"H", "i", "s", "t", "o", "r", "y">>, <<"B", "i", "o", "g", "r", "a", "p", "h", "y">>>>, <<<<"M", "e", "m", "o", "i", "r">>>>, <<<<"H", "i", "s", "t", "o", "r", "y">>>>,
      <<<<"T", "r", "u", "e", " ", "C", "r", "i", "m", "e">>, <<"H", "i", "s", "t", "o", "r", "y">>>>, <<<<"S", "c", "i", "e", "n", "c", "e">>>>, <<<<"P", "o", "l", "i", "t", "i", "c", "a", "l", " ", "S", "c", "i", "e", "n", "c", "e">>>>,
      <<<<"P", "h", "i", "l", "o", "s", "o", "p", "h", "y">>>>, <<<<"B", "u", "s", "i", "n", "e", "s", "s">>>>, <<<<"E", "c", "o", "n", "o", "m", "i", "c", "s">>>>,
      <<<<"S", "e", "l", "f", "-", "H", "e", "l", "p">>>>, <<<<"S", "e", "l", "f", " ", "H", "e", "l", "p">>>>, <<<<"T", "r", "u", "e", " ", "C", "r", "i", "m", "e">>>>,
      <<<<"E", "s", "s", "a", "y", "s">>>>, <<<<"P", "o", "l", "i", "t", "i", "c", "s">>>>, <<<<"P", "o", "l", "i", "t", "i", "c", "a", "l">>>>,
      <<<<"P", "o", "e", "t", "r", "y">>>>, <<<<"P", "o", "e", "t", "r", "y">>, <<"F", "i", "c", "t", "i", "o", "n">>>>,
      <<<<"G", "r", "a", "p", "h", "i", "c", " ", "N", "o", "v", "e", "l">>>>, <<<<"C", "o", "m", "i", "c", "s">>>>, <<<<"Y", "o", "u", "n", "g", " ", "A", "d", "u", "l", "t">>>>,
      <<<<"J", "u", "v", "e", "n", "i", "l", "e", " ", "F", "i", "c", "t", "i", "o", "n">>>> }

\* the books the lookup service answers with, one for each list of categories
ClassifyServiceBooks ==
    { [title |-> <<"C">>, author |-> <<"y">>, isbn |-> <<"0", "3", "0", "6", "4", "0", "6", "1", "5", "2">>,
       publicationDate |-> Undefined, coverUrl |-> Undefined,
       categories |-> categories, source |-> "Google Books"] :
      categories \in CategoryLists }

\* the answer to a manual lookup arrives, with a book
ClassifyLookupAnswered ==
    /\ Unblocked
    /\ UNCHANGED scanVars
    /\ \E k \in 1..Len(lookups), book \in ClassifyServiceBooks :
          ISBNLookupReturns(k, Found(book))

NextClassify ==
    \/ HandleAddBook
    \/ UserTypesISBN
    \/ EnterISBNLookup
    \/ ClassifyLookupAnswered

SpecClassify == InitLookup /\ [][NextClassify]_vars

----------------------------------------------------------------------------
(* The capture session as the user, the camera and the clock drive it *)

\* the codes the decoder reads: ten digits, the same with hyphens, thirteen
\* digits, five digits misread from another barcode, and the ten characters
\* of a Code 39 label
RawCodes == { <<"0", "3", "0", "6", "4", "0", "6", "1", "5", "2">>, <<"0", "-", "3", "0", "6", "-", "4", "0", "6", "1", "5", "-", "2">>, <<"9", "7", "8", "0", "3", "0", "6", "4", "0", "6", "1", "5", "7">>, <<"1", "2", "3", "4", "5">>,
              <<"A", "1", "2", "3", "4", "5", "6", "7", "8", "9">> }

\* app.js handleBarcodeScanning: the barcode modal opens and
\* startBarcodeScanner runs; the open modal covers the button
ScanBarcodeClicked ==
    /\ Unblocked
    /\ ~barcodeModal
    /\ quagga.handlers < MaxSessions
    /\ barcodeModal' = TRUE
    /\ ScannerBecomes(startBarcodeScanner(Scanner))
    /\ capture' = [NoCapture EXCEPT !.quiet = capture.quiet, !.init = "pending"]
    /\ UNCHANGED <<storeVars, form, modal, isbnInput, isbnLookupBtnDisabled,
                   lookups, prompt>>

\* the callback of a Quagga.init, that of the most recent start (`latest`) or
\* that of an earlier one: with an error, onError runs, which in app.js stops
\* the scanner and closes the modal; without, Quagga.start()
QuaggaInitCallback(err, latest) ==
    LET sc == [Scanner EXCEPT !.quagga.inits = @ - 1]
        ended == IF err THEN "failed" ELSE "started"
    IN  /\ IF latest THEN capture.init = "pending"
           ELSE quagga.inits > (IF capture.init = "pending" THEN 1 ELSE 0)
        /\ IF err
           THEN /\ ScannerBecomes(stopBarcodeScanner(sc))
                /\ barcodeModal' = FALSE
                /\ capture' = [capture EXCEPT
                                 !.onErrors = @ + 1,
                                 !.init = IF latest THEN ended ELSE @]
           ELSE /\ ScannerBecomes([sc EXCEPT !.quagga.running = TRUE,
                                             !.quagga.posted = FALSE])
                /\ capture' = [capture EXCEPT
                                 !.init = IF latest THEN ended ELSE @]
                /\ UNCHANGED barcodeModal
        /\ UNCHANGED <<storeVars, form, modal, isbnInput,
                       isbnLookupBtnDisabled, lookups, prompt>>

QuaggaInitialized ==
    \E err \in BOOLEAN, latest \in BOOLEAN : QuaggaInitCallback(err, latest)

\* Quagga publishes a result whose code is `code` to the onDetected handlers
QuaggaPublishes(code) ==
    /\ Len(capture.heard) < MaxDetections
    /\ ScannerBecomes(Publish([Scanner EXCEPT !.quagga.posted = FALSE], code,
                              quagga.handlers))
    /\ capture' = [capture EXCEPT
                     !.heard = Append(@, code),
                     !.quiet = IF ValidLength(StripHyphensSpaces(code))
                               THEN 0 ELSE @]
    /\ UNCHANGED <<storeVars, uiVars>>

\* the running decoder reads a code in the frame
QuaggaDetects ==
    /\ quagga.running
    /\ \E code \in RawCodes : QuaggaPublishes(code)

\* a result the decoder had posted before Quagga.stop() is delivered after it
QuaggaDeliversLate ==
    /\ ~quagga.running
    /\ quagga.posted
    /\ \E code \in RawCodes : QuaggaPublishes(code)

\* a second passes
Tick ==
    /\ capture.quiet < QuietPeriod \/ \E t \in timeouts : t.remaining > 0
    /\ timeouts' = { [t EXCEPT !.remaining = IF @ > 0 THEN @ - 1 ELSE 0] :
                     t \in timeouts }
    /\ capture' = [capture EXCEPT
                     !.quiet = IF @ < QuietPeriod THEN @ + 1 ELSE @]
    /\ UNCHANGED <<storeVars, uiVars, detectedBarcodes, detectionTimer, quagga>>

\* a timeout of the handler expires: onDetected(Array.from(detectedBarcodes)),
\* which in app.js stops the scanner, closes the modal and asks the lookup
\* service for the first code; with no code, it writes isbns[0] to the form
DetectionTimerFires ==
    /\ Unblocked
    /\ Len(lookups) < MaxLookups
    /\ \E t \in timeouts :
          /\ t.remaining = 0
          /\ LET isbns == detectedBarcodes
             IN  /\ ScannerBecomes(stopBarcodeScanner(
                        [Scanner EXCEPT !.timeouts = @ \ {t}]))
                 /\ barcodeModal' = FALSE
                 /\ capture' = [capture EXCEPT !.sinks =
                                  Append(@, [isbns |-> isbns,
                                             heard |-> capture.heard,
                                             quiet |-> capture.quiet])]
                 /\ IF isbns = <<>>
                    THEN /\ form' = [form EXCEPT !.bookISBN = Undefined]
                         /\ UNCHANGED lookups
                    ELSE /\ lookups' = Append(lookups, Awaited("barcode", isbns, 1))
                         /\ UNCHANGED form
    /\ UNCHANGED <<storeVars, modal, isbnInput, isbnLookupBtnDisabled, prompt>>

\* app.js setupEventListeners: a click on the close button or the backdrop of
\* the barcode modal stops the scanner and closes the modal
BarcodeModalClosed ==
    /\ Unblocked
    /\ barcodeModal
    /\ ScannerBecomes(stopBarcodeScanner(Scanner))
    /\ barcodeModal' = FALSE
    /\ UNCHANGED <<storeVars, form, modal, isbnInput, isbnLookupBtnDisabled,
                   lookups, prompt, capture>>

\* the lookup service cannot be reached: the sink ends at its awaited call
SinkLookupFails ==
    /\ Unblocked
    /\ \E k \in 1..Len(lookups) : SinkLookupReturns(k, TransportError)
    /\ UNCHANGED scanVars

NextScan ==
    \/ ScanBarcodeClicked
    \/ QuaggaInitialized
    \/ QuaggaDetects
    \/ QuaggaDeliversLate
    \/ Tick
    \/ DetectionTimerFires
    \/ BarcodeModalClosed
    \/ SinkLookupFails

SpecScan == InitLookup /\ [][NextScan]_vars

----------------------------------------------------------------------------
(* Claims about the DataStore *)

Ids(bs) == { bs[i].id : i \in 1..Len(bs) }

\* the identity of each book of a collection, in order
Identity(bs) == [i \in 1..Len(bs) |-> <<bs[i].id, bs[i].addedAt>>]

\* a step in which localStorage.setItem threw
WriteFailed == faults' > faults

\* C1: when the backend write of addBook, updateBook or deleteBook fails, the
\* call raises an error and the in-memory collection is what it was before
\* the call.
C1_FailedWriteLeavesMirror ==
    [][ (WriteFailed /\ last'.op \in {"addBook", "updateBook", "deleteBook"})
            => (last'.outcome = "PersistenceError" /\ books' = books) ]_vars

\* C2: after every successful addBook, updateBook, deleteBook or importBooks
\* call the backend holds exactly the in-memory collection.
C2_BackendEqualsMirror ==
    (last.op \in {"addBook", "updateBook", "deleteBook", "importBooks"}
        /\ last.outcome = "ok")
        => storage = JSONStringify(books)

\* C6: a book's id and addedAt are those addBook gave it for as long as it is
\* in the collection: every book of the collection after a step either was in
\* it before with the same id and addedAt, or is new with an id never handed
\* out before; updateBook leaves the identities of all books as they were.
C6_IdentityImmutable ==
    [][ /\ \A j \in 1..Len(books') :
              \/ \E i \in 1..Len(books) : Identity(books)[i] = Identity(books')[j]
              \/ books'[j].id >= nextId
        /\ \A i \in 1..Len(books), j \in 1..Len(books') :
              books[i].id = books'[j].id => books[i].addedAt = books'[j].addedAt
        /\ last'.op = "updateBook" => Identity(books') = Identity(books) ]_vars

\* C6 happens: an updateBook has replaced the fields of a book that was not
\* the last one added
C6_Witness ==
    /\ last.op = "updateBook" /\ last.outcome = "ok"
    /\ Len(books) >= 2
    /\ last.ret[1].id # nextId - 1
    /\ last.ret[1].addedAt # clock

\* C7: every book in the collection passes validateBook: its formats are not
\* empty and its title and author are not empty after trimming.
C7_EveryBookValid ==
    \A i \in 1..Len(books) :
        /\ validateBook(books[i]).isValid
        /\ books[i].formats # Undefined /\ Len(books[i].formats) > 0
        /\ books[i].title # Undefined /\ Trim(books[i].title) # EmptyString
        /\ books[i].author # Undefined /\ Trim(books[i].author) # EmptyString

\* C7 happens: an importBooks has added a record and skipped an invalid one
C7_Witness ==
    /\ last.op = "importBooks"
    /\ last.result.imported >= 1 /\ last.result.skipped >= 1
    /\ Len(books) >= 2

NoRepeats(seq) == \A i, j \in 1..Len(seq) : seq[i] = seq[j] => i = j

\* C8: no format value occurs more than once in a stored book's formats.
C8_FormatsAreSets ==
    \A i \in 1..Len(books) : NoRepeats(books[i].formats)

\* C9: addBook with data that fails validation throws the messages of every
\* violated rule and changes neither the collection nor the backend; addBook
\* with valid data appends exactly one record, with an id never handed out
\* before and the time of the call, and leaves the records before it alone.
C9_AddBookValidates ==
    [][ \A bookData \in BookInputs, quotaOk \in BOOLEAN :
            (last'.op = "addBook" /\ AddBookCall(bookData, quotaOk)) =>
                IF ValidateErrors(bookData) # <<>>
                THEN /\ last'.outcome = "ValidationError"
                     /\ last'.errors = ValidateErrors(bookData)
                     /\ books' = books
                     /\ storage' = storage
                ELSE /\ Len(books') = Len(books) + 1
                     /\ SubSeq(books', 1, Len(books)) = books
                     /\ books'[Len(books')].id >= nextId
                     /\ books'[Len(books')].id \notin Ids(books)
                     /\ books'[Len(books')].addedAt = clock ]_vars

\* C9 happens: addBook has thrown several messages on a collection that
\* holds books
C9_Witness ==
    /\ last.op = "addBook" /\ last.outcome = "ValidationError"
    /\ Len(last.errors) >= 2
    /\ Len(books) >= 1

\* what C10 says of the calls with an id no book has: updateBook (whatever the
\* data) and deleteBook throw not-found and change nothing
AbsentIdIsNotFound ==
    /\ \A id \in KnownIds \ Ids(books), bookData \in BookInputs,
          quotaOk \in BOOLEAN :
          (last'.op = "updateBook" /\ UpdateBookCall(id, bookData, quotaOk))
              => /\ last'.outcome = "NotFoundError"
                 /\ books' = books
                 /\ storage' = storage
    /\ \A id \in KnownIds \ Ids(books), quotaOk \in BOOLEAN :
          (last'.op = "deleteBook" /\ DeleteBookCall(id, quotaOk))
              => /\ last'.outcome = "NotFoundError"
                 /\ books' = books
                 /\ storage' = storage

\* what C10 says of the collection after deleteBook with an id a book has:
\* that book is gone, the others are there in their order
RemovesExactly(id) ==
    /\ Len(books') = Len(books) - 1
    /\ books' = SelectSeq(books, LAMBDA b : b.id # id)

----------------------------------------------------------------------------
(* Claims about the lookup and duplicate workflow *)

HasPhysical(book) ==
    \E i \in 1..Len(book.formats) : book.formats[i] = "physical"

\* a stored book and a book of the lookup service have the same title and the
\* same author, case and surrounding spaces aside
SameTitleAuthor(book, serviceBook) ==
    /\ Trim(ToLowerCase(book.title))
          = Trim(ToLowerCase(OrElse(serviceBook.title, EmptyString)))
    /\ Trim(ToLowerCase(book.author))
          = Trim(ToLowerCase(OrElse(serviceBook.author, EmptyString)))

BookSet(bs) == { bs[i] : i \in 1..Len(bs) }

\* a step that adds a record is a submission of the form by the user
OnlySubmissionAdds ==
    Len(books') > Len(books)
        => (prompt = <<>> /\ \E quotaOk \in BOOLEAN : HandleSaveBookCall(quotaOk))

\* C3: when the prompt is about an existing record without the physical
\* format and the user chooses merge, the record's formats afterwards hold
\* its previous formats and physical, and the collection has as many records
\* as before.
C3_MergeAddsPhysical ==
    [][ \A quotaOk \in BOOLEAN :
            (/\ prompt # <<>>
             /\ ~HasPhysical(prompt[1].existing)
             /\ ConfirmAnswered(TRUE, quotaOk))
            => LET existing == prompt[1].existing
                   index    == FindIndex(books', existing.id)
               IN  /\ Len(books') = Len(books)
                   /\ index # 0
                   /\ HasPhysical(books'[index])
                   /\ \A i \in 1..Len(existing.formats) :
                         \E j \in 1..Len(books'[index].formats) :
                             books'[index].formats[j] = existing.formats[i] ]_vars

\* the form after a copy was staged from the looked-up book: each looked-up
\* field that is not empty filled in, physical checked, the copy note set,
\* and what the lookup does not know left as the user had it
StagedFrom(before, after, scanned) ==
    /\ after.bookTitle = IF Truthy(scanned.title) THEN scanned.title
                         ELSE before.bookTitle
    /\ after.bookAuthor = IF Truthy(scanned.author) THEN scanned.author
                          ELSE before.bookAuthor
    /\ after.bookISBN = IF Truthy(scanned.isbn) THEN scanned.isbn
                        ELSE before.bookISBN
    /\ after.formatPhysical
    /\ after.bookNotes = CopyNote
    /\ after.bookDifficulty = before.bookDifficulty
    /\ after.bookStatus = before.bookStatus
    /\ after.formatKindle = before.formatKindle
    /\ after.formatAudible = before.formatAudible

\* C4: when the prompt is about an existing record that has the physical
\* format, answering it changes neither the collection nor the backend;
\* cancel leaves the form as it was, accept stages the form from the looked-up
\* book; and a record is added only by a later submission of the form.
C4_SecondCopyOnlyStages ==
    [][ /\ \A answer \in BOOLEAN, quotaOk \in BOOLEAN :
              (/\ prompt # <<>>
               /\ HasPhysical(prompt[1].existing)
               /\ ConfirmAnswered(answer, quotaOk))
              => /\ books' = books
                 /\ storage' = storage
                 /\ IF answer
                    THEN StagedFrom(form, form', prompt[1].scanned)
                    ELSE form' = form
        /\ OnlySubmissionAdds ]_vars

\* C4 happens: a second copy staged from the prompt about a physical book was
\* submitted and stands after that book
C4_Witness ==
    /\ Len(books) = 2
    /\ HasPhysical(books[1])
    /\ books[2].notes = CopyNote
    /\ HasPhysical(books[2])
    /\ \E book \in ServiceBooks :
          SameTitleAuthor(books[1], book) /\ SameTitleAuthor(books[2], book)
    /\ last.op = "addBook" /\ last.outcome = "ok"

\* C5: in the manual lookup and in the barcode sink, an answer of the service
\* that matches an existing record changes neither the collection, nor the
\* backend, nor the form, and raises the prompt about such a record; while
\* the prompt is open the only step is its answer; and a record is added only
\* by a submission of the form.
C5_PromptBeforeAnyChange ==
    [][ /\ \A k \in 1..Len(lookups), book \in ServiceBooks :
              (/\ prompt = <<>>
               /\ \E b \in BookSet(books) : SameTitleAuthor(b, book)
               /\ \/ ISBNLookupReturns(k, Found(book))
                  \/ SinkLookupReturns(k, Found(book)))
              => /\ books' = books
                 /\ storage' = storage
                 /\ form' = form
                 /\ prompt' # <<>>
                 /\ prompt'[1].existing \in BookSet(books)
                 /\ SameTitleAuthor(prompt'[1].existing, book)
        /\ prompt # <<>>
              => \E answer \in BOOLEAN, quotaOk \in BOOLEAN :
                    ConfirmAnswered(answer, quotaOk)
        /\ OnlySubmissionAdds ]_vars

\* C5 happens: the barcode sink has raised the prompt about a stored book
\* while a manual lookup still awaits its answer and the form is untouched
C5_Witness ==
    /\ prompt # <<>>
    /\ prompt[1].flow = "barcode"
    /\ prompt[1].existing \in BookSet(books)
    /\ \E k \in 1..Len(lookups) : lookups[k].flow = "isbn"
    /\ form = EmptyForm

----------------------------------------------------------------------------
(* Claims about importBooks, exportBooks and loadFromStorage *)

\* importBooks on the first n records of a batch
ImportPrefix(importedBooks, quota, n) ==
    importBooks(Store, SubSeq(importedBooks, 1, n), clock, quota)

\* a record has the lowercased title and author of a book of the collection
SameLowercased(bs, bookData) ==
    /\ bookData # Null
    /\ bookData.title # Undefined /\ bookData.author # Undefined
    /\ \E b \in BookSet(bs) :
          /\ ToLowerCase(b.title) = ToLowerCase(bookData.title)
          /\ ToLowerCase(b.author) = ToLowerCase(bookData.author)

\* the n-th record left the collection and the backend alone and was counted
\* as skipped
SkippedUntouched(before, after) ==
    /\ after.books = before.books
    /\ after.storage = before.storage
    /\ after.result.imported = before.result.imported
    /\ after.result.skipped = before.result.skipped + 1

\* the n-th record was added with its missing fields defaulted, and counted as
\* imported
AddedDefaulted(before, after, bookData) ==
    /\ Len(after.books) = Len(before.books) + 1
    /\ SubSeq(after.books, 1, Len(before.books)) = before.books
    /\ bookData # Null
    /\ LET book == after.books[Len(after.books)]
       IN  /\ book.title = Trim(OrElse(bookData.title, <<"U", "n", "t", "i", "t", "l", "e", "d">>))
           /\ book.author = Trim(OrElse(bookData.author, <<"U", "n", "k", "n", "o", "w", "n", " ", "A", "u", "t", "h", "o", "r">>))
           /\ book.status = OrElse(bookData.status, <<"u", "n", "r", "e", "a", "d">>)
           /\ book.genre = OrElse(bookData.genre, <<"U", "n", "c", "a", "t", "e", "g", "o", "r", "i", "z", "e", "d">>)
           /\ book.fictionType = OrElse(bookData.fictionType, <<"N", "o", "n", "f", "i", "c", "t", "i", "o", "n">>)
           /\ book.difficulty = OrElse(bookData.difficulty, <<"M", "o", "d", "e", "r", "a", "t", "e">>)
           /\ book.formats = IF bookData.formats = Undefined
                             THEN <<"physical">> ELSE bookData.formats
    /\ after.result.imported = before.result.imported + 1
    /\ after.result.skipped = before.result.skipped

\* a record that addBook takes: not null, and valid once defaulted
Importable(bookData) ==
    /\ bookData # Null
    /\ ValidateErrors(completeBookData(bookData)) = <<>>

\* the counts of importBooks add up to the length of the input
CountsAddUp(result, importedBooks) ==
    /\ result.total = Len(importedBooks)
    /\ result.imported + result.skipped = result.total

C12_FailuresAreIsolated ==
    \A importedBooks \in ImportRecordBatches :
          \A quota \in [1..Len(importedBooks) -> BOOLEAN] :
            LET call == ImportPrefix(importedBooks, quota, Len(importedBooks))
            IN /\ call.outcome = "ok"
               /\ call.result.total = Len(importedBooks)
               /\ \A n \in 1..Len(importedBooks) :
                     LET before == ImportPrefix(importedBooks, quota, n - 1)
                         after  == ImportPrefix(importedBooks, quota, n)
                     IN  /\ after.outcome = "ok"
                         /\ after.result.imported + after.result.skipped = n
                         /\ (/\ Importable(importedBooks[n])
                             /\ quota[n]
                             /\ ~SameLowercased(before.books, importedBooks[n]))
                            => /\ after.result.imported = before.result.imported + 1
                               /\ Len(after.books) = Len(before.books) + 1
               /\ call.result.imported + call.result.skipped = Len(importedBooks)

\* C12 happens: in one importBooks call the write of the first record failed
\* and the second record was imported
C12_Witness ==
    /\ last.op = "importBooks"
    /\ last.result = [imported |-> 1, skipped |-> 1, total |-> 2]
    /\ faults = 1
    /\ Len(books) = 2
    /\ books[1].addedAt = books[2].addedAt
    /\ storage = JSONStringify(books)

\* two collections are the same but for the id and addedAt of their books
EquivalentModuloIdentity(bs, cs) ==
    /\ Len(bs) = Len(cs)
    /\ \A i \in 1..Len(bs) :
          WithIdentity(bs[i], 0, 0) = WithIdentity(cs[i], 0, 0)

\* importBooks(exportBooks()) of the collection into a store that holds
\* nothing and whose writes succeed
RoundTrip(bs) ==
    importBooks([books |-> <<>>, storage |-> NoItem, nextId |-> nextId],
                exportBooks(bs), clock, [i \in 1..Len(bs) |-> TRUE])

\* C13: importing the export of the collection into an otherwise empty store
\* imports every record, skips none, and gives a collection equivalent to the
\* exported one but for id and addedAt.
C13_RoundTrip ==
    LET out == RoundTrip(books)
    IN  /\ out.result.imported = out.result.total
        /\ out.result.skipped = 0
        /\ EquivalentModuloIdentity(out.books, books)

\* C14: loadFromStorage never raises, and when the read of the backend
\* throws, the stored text does not parse, or what it parses to is not an
\* array, the collection is empty afterwards.
C14_LoadFailsSoft ==
    [][ last'.op = "loadFromStorage"
            => /\ last'.outcome = "ok"
               /\ storage.kind \in {"unreadable", "malformed", "json"}
                     => books' = <<>>
               /\ storage.kind = "array" => books' = storage.value ]_vars

\* C14 happens: loadFromStorage has emptied a collection that held a book
\* whose write had failed, the backend holding a text that does not parse
C14_Witness ==
    /\ last.op = "loadFromStorage" /\ last.outcome = "ok"
    /\ storage.kind = "malformed"
    /\ nextId = 2 /\ faults = 1
    /\ books = <<>>

----------------------------------------------------------------------------
(* Claims about filterBooks and sortBooks *)

\* a book has every format of a list
HasEveryFormat(book, formats) ==
    \A i \in 1..Len(formats) : Contains(book.formats, formats[i])

\* a book satisfies every criterion that is not empty, the search text being
\* looked for as `term`
Satisfies(book, criteria, term) ==
    /\ criteria.fictionType # EmptyString => book.fictionType = criteria.fictionType
    /\ criteria.genre # EmptyString => book.genre = criteria.genre
    /\ criteria.status # EmptyString => book.status = criteria.status
    /\ HasEveryFormat(book, criteria.formats)
    /\ criteria.search # EmptyString =>
          \E field \in {"title", "author", "genre", "notes", "fictionType"} :
              Includes(ToLowerCase(book[field]), ToLowerCase(term))

NoCriteria ==
    [fictionType |-> EmptyString, genre |-> EmptyString, status |-> EmptyString,
     formats |-> <<>>, search |-> EmptyString]

\* what C15 says of the two named criteria: with none set the whole
\* collection comes back, with physical and kindle asked for no book lacks
\* either
NamedCriteria ==
    /\ filterBooks(books, NoCriteria) = books
    /\ \A criteria \in FilterCriteria :
          criteria.formats = <<"physical", "kindle">> =>
              \A book \in BookSet(filterBooks(books, criteria)) :
                  Contains(book.formats, "physical")
                      /\ Contains(book.formats, "kindle")

\* C15 as stated: filterBooks returns exactly the books of the collection, in
\* stored order, that satisfy every non-empty criterion, the search text
\* being a case-insensitive substring of title, author, genre, notes or
\* fictionType; with no criterion it returns the whole collection, and with
\* formats physical and kindle no book lacking either.
C15_AsStated ==
    /\ \A criteria \in FilterCriteria :
          filterBooks(books, criteria)
              = SelectSeq(books, LAMBDA book :
                                   Satisfies(book, criteria, criteria.search))
    /\ NamedCriteria

\* C15 amended: as C15, the search text being looked for without the spaces
\* around it.
C15_Amended ==
    /\ \A criteria \in FilterCriteria :
          filterBooks(books, criteria)
              = SelectSeq(books, LAMBDA book :
                                   Satisfies(book, criteria, Trim(criteria.search)))
    /\ NamedCriteria

\* C15 happens: filterBooks has returned the first and the third of three
\* books, leaving out the one between them
C15_Witness ==
    /\ last.op = "filterBooks"
    /\ Len(books) = 3
    /\ last.ret = <<books[1], books[3]>>
    /\ books[2] # books[1] /\ books[2] # books[3]

Reverse(seq) == [i \in 1..Len(seq) |-> seq[Len(seq) + 1 - i]]

\* sortBooks leaves the array it is given as it was, and descending it
\* returns the reverse of what it returns ascending
ReversesAndCopies(sortBy) ==
    LET ascending  == sortBooks(books, sortBy, TRUE)
        descending == sortBooks(books, sortBy, FALSE)
    IN  /\ descending.sorted = Reverse(ascending.sorted)
        /\ ascending.input = books
        /\ descending.input = books

\* C16 as stated: on every sort field on which no two books of the collection
\* have the same value, sortBooks descending is the reverse of sortBooks
\* ascending; and sortBooks does not change the array it is given.
C16_AsStated ==
    \A sortBy \in SortFields :
        (\A i, j \in 1..Len(books) :
            books[i][sortBy] = books[j][sortBy] => i = j)
        => ReversesAndCopies(sortBy)

\* C16 amended: as C16, for the sort fields on which no two books have the
\* same value as sortBooks compares it (strings without regard to case, the
\* formats joined).
C16_Amended ==
    \A sortBy \in SortFields :
        (\A i, j \in 1..Len(books) :
            SortValue(books[i], sortBy) = SortValue(books[j], sortBy) => i = j)
        => ReversesAndCopies(sortBy)

\* C16 happens: sortBooks has returned three books in the opposite of their
\* order in the collection, which it left as it was
C16_Witness ==
    /\ last.op = "sortBooks"
    /\ Len(books) = 3
    /\ last.ret = Reverse(books)
    /\ \A i, j \in 1..3 : books[i].title = books[j].title => i = j

----------------------------------------------------------------------------
(* Claims about validateBook and autoClassifyGenre *)

\* a text is missing, or nothing is left of it when the spaces around it are
\* taken away
MissingOrBlank(text) ==
    text = Undefined \/ \A i \in 1..Len(text) : IsSpace(text[i])

\* a text is missing or empty
MissingOrEmpty(text) == text = Undefined \/ text = EmptyString

\* an isbn is ten or thirteen digits once its hyphens and spaces are left out
TenOrThirteenDigits(isbn) ==
    LET kept == { i \in 1..Len(isbn) : isbn[i] # "-" /\ ~IsSpace(isbn[i]) }
    IN  /\ Cardinality(kept) \in {IsbnShort, IsbnLong}
        /\ \A i \in kept : isbn[i] \in Digits

\* the rules in their order: whether the candidate violates the rule, and the
\* message of the rule
RulesInOrder(book) ==
    << <<MissingOrBlank(book.title), "Title is required">>,
       <<MissingOrBlank(book.author), "Author is required">>,
       <<MissingOrEmpty(book.genre), "Genre is required">>,
       <<MissingOrEmpty(book.fictionType), "Fiction Type is required">>,
       <<MissingOrEmpty(book.difficulty), "Difficulty is required">>,
       <<MissingOrEmpty(book.status), "Status is required">>,
       <<book.formats = Undefined \/ book.formats = <<>>,
         "At least one format is required">>,
       <<~MissingOrEmpty(book.isbn) /\ ~TenOrThirteenDigits(book.isbn),
         "Invalid ISBN format">> >>

\* the messages of the violated rules, in the order of the rules
RECURSIVE ViolatedOf(_)
ViolatedOf(rules) ==
    IF rules = <<>> THEN <<>>
    ELSE (IF Head(rules)[1] THEN <<Head(rules)[2]>> ELSE <<>>)
            \o ViolatedOf(Tail(rules))

\* C17: validateBook returns the message of every violated rule, in the order
\* title, author, genre, fictionType, difficulty, status, formats, isbn, and
\* is valid exactly when there is none; a missing or blank title gives the
\* Title message; a missing or empty isbn violates nothing, any other isbn is
\* accepted exactly when it is ten or thirteen digits without its hyphens and
\* spaces; and the call changes nothing.
C17_ValidateCollectsAll ==
    /\ \A book \in Candidates :
          LET validation == validateBook(book)
          IN  /\ validation.errors = ViolatedOf(RulesInOrder(book))
              /\ validation.isValid <=> validation.errors = <<>>
              /\ MissingOrBlank(book.title)
                    => validation.errors[1] = "Title is required"
              /\ isValidISBN(book.isbn)
                    <=> (MissingOrEmpty(book.isbn) \/ TenOrThirteenDigits(book.isbn))
    /\ last.op = "validateBook" => books = <<>> /\ storage = NoItem

\* C17 happens: validateBook has returned the messages of all eight rules
C17_Witness ==
    /\ last.op = "validateBook" /\ last.outcome = "invalid"
    /\ Len(last.errors) = 8
    /\ last.errors[1] = "Title is required"
    /\ last.errors[8] = "Invalid ISBN format"

\* the genres of the rules in the documented order, the fallback last
DocumentedOrder ==
    << <<"L", "i", "t", "e", "r", "a", "r", "y", " ", "F", "i", "c", "t", "i", "o", "n">>, <<"M", "y", "s", "t", "e", "r", "y", "/", "T", "h", "r", "i", "l", "l", "e", "r">>, <<"S", "c", "i", "e", "n", "c", "e", " ", "F", "i", "c", "t", "i", "o", "n">>, <<"F", "a", "n", "t", "a", "s", "y">>,
       <<"R", "o", "m", "a", "n", "c", "e">>, <<"H", "i", "s", "t", "o", "r", "i", "c", "a", "l", " ", "F", "i", "c", "t", "i", "o", "n">>, <<"H", "o", "r", "r", "o", "r">>, <<"B", "i", "o", "g", "r", "a", "p", "h", "y", "/", "M", "e", "m", "o", "i", "r">>,
       <<"H", "i", "s", "t", "o", "r", "y">>, <<"S", "c", "i", "e", "n", "c", "e">>, <<"P", "h", "i", "l", "o", "s", "o", "p", "h", "y">>, <<"B", "u", "s", "i", "n", "e", "s", "s">>, <<"S", "e", "l", "f", "-", "H", "e", "l", "p">>,
       <<"T", "r", "u", "e", " ", "C", "r", "i", "m", "e">>, <<"E", "s", "s", "a", "y", " ", "C", "o", "l", "l", "e", "c", "t", "i", "o", "n">>, <<"P", "o", "l", "i", "t", "i", "c", "s", "/", "C", "u", "r", "r", "e", "n", "t", " ", "E", "v", "e", "n", "t", "s">>,
       <<"P", "o", "e", "t", "r", "y">>, <<"G", "r", "a", "p", "h", "i", "c", " ", "N", "o", "v", "e", "l">>, <<"Y", "o", "u", "n", "g", " ", "A", "d", "u", "l", "t">>, <<"L", "i", "t", "e", "r", "a", "r", "y", " ", "F", "i", "c", "t", "i", "o", "n">> >>

\* the result of the earliest rule that applies to the categories, none when
\* no rule applies or there are no categories
EarliestRule(categories) ==
    IF categories = Undefined \/ categories = <<>> THEN <<>>
    ELSE LET applying == { i \in 1..Len(ClassifyRules) :
                             RuleApplies(ClassifyRules[i], CategoriesStr(categories)) }
         IN  IF applying = {} THEN <<>>
             ELSE LET i == CHOOSE i \in applying : \A j \in applying : i <= j
                  IN  <<[genre |-> DocumentedOrder[i],
                         fictionType |-> ClassifyRules[i].fictionType]>>

\* C18: autoClassifyGenre gives the result of the earliest rule, in the
\* documented order, that applies to the lowercased categories joined by
\* spaces, and none when no rule applies or there are no categories; Mystery
\* and Thriller give Mystery/Thriller and Fiction, Cooking gives none; and
\* the form of a looked-up book shows no genre but one of the rules.
C18_FirstMatchWins ==
    /\ \A categories \in CategoryLists :
          autoClassifyGenre(categories) = EarliestRule(categories)
    /\ autoClassifyGenre(<<<<"M", "y", "s", "t", "e", "r", "y">>, <<"T", "h", "r", "i", "l", "l", "e", "r">>>>)
          = <<[genre |-> <<"M", "y", "s", "t", "e", "r", "y", "/", "T", "h", "r", "i", "l", "l", "e", "r">>, fictionType |-> <<"F", "i", "c", "t", "i", "o", "n">>]>>
    /\ autoClassifyGenre(<<<<"C", "o", "o", "k", "i", "n", "g">>>>) = <<>>
    /\ form.bookGenre # EmptyString
          => \E i \in 1..Len(DocumentedOrder) :
                /\ form.bookGenre = DocumentedOrder[i]
                /\ form.bookFictionType = ClassifyRules[i].fictionType

\* C18 happens: a lookup has filled the form with the classification of a
\* book to whose categories several rules apply
C18_Witness ==
    /\ form.bookTitle = <<"C">>
    /\ form.bookGenre = <<"M", "y", "s", "t", "e", "r", "y", "/", "T", "h", "r", "i", "l", "l", "e", "r">>
    /\ form.bookFictionType = <<"F", "i", "c", "t", "i", "o", "n">>
    /\ lookups = <<>>

----------------------------------------------------------------------------
(* Claims about the barcode capture session *)

\* C19: at most one timer is pending, and it is the one set at the most
\* recent valid detection; the sink is invoked only after a full quiet period
\* without a valid detection; a detection of 10 or 13 characters leaves
\* exactly one timer pending, set to the whole quiet period, whatever was
\* pending before; a detection of any other length changes neither the set
\* nor the timers.
C19_QuietPeriod ==
    /\ [](/\ Cardinality(timeouts) <= 1
          /\ \A t \in timeouts :
                /\ t.id = detectionTimer
                /\ t.remaining = QuietPeriod - capture.quiet
          /\ \A i \in 1..Len(capture.sinks) :
                capture.sinks[i].quiet = QuietPeriod)
    /\ [][\A code \in RawCodes :
            QuaggaPublishes(code) =>
                IF ValidLength(StripHyphensSpaces(code))
                THEN timeouts' = {[id |-> detectionTimer',
                                   remaining |-> QuietPeriod]}
                ELSE UNCHANGED <<detectedBarcodes, detectionTimer, timeouts>>]_vars

\* C19 happens: the sink was invoked after a valid detection, a detection of
\* another length and a second valid detection, which set the timer anew
C19_Witness ==
    \E i \in 1..Len(capture.sinks) :
        LET heard == capture.sinks[i].heard
        IN  /\ Len(heard) = 3
            /\ ValidLength(StripHyphensSpaces(heard[1]))
            /\ ~ValidLength(StripHyphensSpaces(heard[2]))
            /\ ValidLength(StripHyphensSpaces(heard[3]))
            /\ Len(capture.sinks[i].isbns) = 2

\* the codes of 10 or 13 characters among the normalized `heard`, each once,
\* in the order of their first detection
SessionCodes(heard) ==
    Unique(SelectSeq([i \in 1..Len(heard) |-> StripHyphensSpaces(heard[i])],
                     LAMBDA c : Len(c) = 10 \/ Len(c) = 13))

\* C20: every batch handed to the sink is non-empty and is exactly the
\* normalized codes of length 10 or 13 detected since the session was
\* started, each once, in the order of first detection; and a detection of
\* another length never invokes onError.
C20_BatchIsSessionCodes ==
    /\ [](\A i \in 1..Len(capture.sinks) :
            /\ capture.sinks[i].isbns # <<>>
            /\ capture.sinks[i].isbns = SessionCodes(capture.sinks[i].heard))
    /\ [][\A code \in RawCodes :
            (QuaggaPublishes(code) /\ ~ValidLength(StripHyphensSpaces(code)))
                => capture'.onErrors = capture.onErrors]_vars

\* C21: stopBarcodeScanner leaves no timer pending and the set empty in
\* whatever state it is called, calling it a second time changes nothing
\* further, and the sink is never invoked after a stop unless
\* startBarcodeScanner was called since (every stop of app.js closes the
\* barcode modal, and only the start opens it).
C21_StopIsFinal ==
    /\ [](LET stopped == stopBarcodeScanner(Scanner)
          IN  /\ stopped.timeouts = {}
              /\ stopped.detectionTimer = NoTimer
              /\ stopped.detectedBarcodes = <<>>
              /\ stopBarcodeScanner(stopped) = stopped)
    /\ [][DetectionTimerFires => barcodeModal]_vars

\* C22: the sink is invoked at most once after a start; once it was invoked
\* no timer is pending, the set is empty and the decoder is halted, until
\* the next start; and a start begins with an empty set.
C22_SessionLifecycle ==
    /\ [](/\ Len(capture.sinks) <= 1
          /\ capture.sinks # <<>> =>
                /\ timeouts = {}
                /\ detectedBarcodes = <<>>
                /\ ~quagga.running)
    /\ [][ScanBarcodeClicked => detectedBarcodes' = <<>>]_vars

\* C23: the callback of Quagga.init with an error invokes onError once, does
\* not start the decoder and invokes no sink; and after the init of the most
\* recent start has failed, the session stays idle and the sink is not
\* invoked until the next start.
C23_InitFailure ==
    /\ [][\A latest \in BOOLEAN :
            QuaggaInitCallback(TRUE, latest) =>
                /\ capture'.onErrors = capture.onErrors + 1
                /\ ~quagga'.running
                /\ capture'.sinks = capture.sinks]_vars
    /\ [](capture.init = "failed" => timeouts = {} /\ detectedBarcodes = <<>>)
    /\ [][DetectionTimerFires => capture.init # "failed"]_vars

\* C28: every code of every batch handed to the sink is accepted by
\* validateISBN.
C28_SinkCodesAreISBNs ==
    \A i \in 1..Len(capture.sinks) :
        \A j \in 1..Len(capture.sinks[i].isbns) :
            validateISBN(capture.sinks[i].isbns[j]).valid

----------------------------------------------------------------------------
(* Claims about the resolution of a barcode batch *)

\* C27: the sink asks for the codes of its batch in order: an answer without
\* a book to a code that is not the last moves it to the next code, and so
\* does a transport error; a book ends it at the duplicate prompt or at the
\* filled form; and when the last code has no book either, the first code of
\* the batch is put into the form's ISBN field.
C27_BatchTriesEveryCode ==
    [][\A k \in 1..Len(lookups) : \A reply \in Replies :
         SinkLookupReturns(k, reply) =>
            LET isbns == lookups[k].isbns
                i == lookups[k].i
            IN  IF reply.kind = "found"
                THEN LET bookData == lookupISBN(isbns[i], reply).bookData[1]
                     IN  /\ lookups' = Settled(k)
                         /\ \/ prompt' # <<>>
                            \/ form' = autofillBookForm(form, bookData,
                                           autoClassifyGenre(bookData.categories))
                ELSE IF i < Len(isbns)
                THEN lookups' = [lookups EXCEPT ![k].i = i + 1]
                ELSE /\ lookups' = Settled(k)
                     /\ form'.bookISBN = isbns[1]]_vars

----------------------------------------------------------------------------
(* Claims about what importBooks leaves in the collection *)

\* a record whose title has a space before it and whose author has one after
\* it; addBook stores it with the title and author of ImportValid
ImportPadded ==
    [ValidData EXCEPT !.title = <<" ">> \o ValidData.title,
                      !.author = ValidData.author \o <<" ">>]

\* batches in which a record repeats the stored title and author of the one
\* before it, up to the spaces around them
PaddedBatches == { <<ImportValid, ImportPadded>>, <<ImportPadded, ImportPadded>> }

\* C29: in every state of the store and for every batch, whichever writes
\* fail: when importBooks returns, the collection has grown by exactly
\* `imported` records, and a record counted as skipped left the collection as
\* it was.
C29_GrowsByImported ==
    \A importedBooks \in ImportRecordBatches :
        \A quota \in [1..Len(importedBooks) -> BOOLEAN] :
            LET call == ImportPrefix(importedBooks, quota, Len(importedBooks))
            IN  /\ Len(call.books) = Len(books) + call.result.imported
                /\ \A n \in 1..Len(importedBooks) :
                      LET before == ImportPrefix(importedBooks, quota, n - 1)
                          after  == ImportPrefix(importedBooks, quota, n)
                      IN  after.result.skipped > before.result.skipped
                              => after.books = before.books

\* C30: in every state of the store and for every batch, whichever writes
\* fail: a record that importBooks adds has not the stored title and author
\* of a book the collection held before it, compared as findDuplicate
\* compares them.
C30_NoStoredDuplicate ==
    \A importedBooks \in ImportRecordBatches \cup PaddedBatches :
        \A quota \in [1..Len(importedBooks) -> BOOLEAN] :
            \A n \in 1..Len(importedBooks) :
                LET before == ImportPrefix(importedBooks, quota, n - 1)
                    after  == ImportPrefix(importedBooks, quota, n)
                IN  Len(after.books) > Len(before.books) =>
                        LET book == after.books[Len(after.books)]
                        IN  findDuplicate(before.books, book.title, book.author) = <<>>

----------------------------------------------------------------------------
(* Claims about the manual ISBN lookup and its button *)

\* the positions of the awaited calls that handleISBNLookup made
ManualLookups == { k \in 1..Len(lookups) : lookups[k].flow = "isbn" }

\* C25: at most one manual ISBN lookup awaits its answer, and the lookup
\* button is disabled while one does, whether the lookups were made by a
\* click or by the Enter key.
C25_OneLookupInFlight ==
    /\ Cardinality(ManualLookups) <= 1
    /\ ManualLookups # {} => isbnLookupBtnDisabled

----------------------------------------------------------------------------
(* Claims about the merge of the physical format into an existing record *)

\* the fields of a record that the merge path is to leave alone
FrameFields ==
    {"title", "author", "status", "genre", "fictionType", "difficulty",
     "notes", "isbn", "publicationDate", "acquiredDate", "coverUrl"}

----------------------------------------------------------------------------
(* The manual ISBN lookup on its own, with answers that arrive *)

\* what the user types into the ISBN input besides the ISBN: five digits,
\* which validateISBN rejects
MalformedISBNInputs == { <<"1", "2", "3", "4", "5">> }

\* the user types an ISBN, five digits, or clears the input
UserTypesAnyISBN ==
    /\ Unblocked
    /\ isbnInput' \in ISBNInputs \cup MalformedISBNInputs \cup {EmptyString}
    /\ UNCHANGED <<storeVars, form, modal, isbnLookupBtnDisabled, lookups,
                   barcodeModal, prompt, scanVars>>

\* the book the lookup service knows, as an earlier session stored it: in the
\* kindle format, or in the physical format
ShelvedBook(format) ==
    [EarlierBook EXCEPT !.title = <<"C">>, !.author = <<"y">>,
                        !.formats = <<format>>]

\* what localStorage holds when the page loads: the empty array, or an array
\* with that book
ShelfItems ==
    { JSONStringify(<<>>), JSONStringify(<<ShelvedBook("kindle")>>),
      JSONStringify(<<ShelvedBook("physical")>>) }

\* the page as it loads on such a backend
InitButton ==
    /\ storage \in ShelfItems
    /\ books = loadFromStorage(<<>>, storage).books
    /\ nextId = 1
    /\ clock = 0
    /\ faults = 0
    /\ last = NoCall
    /\ InitUI

NextButton ==
    \/ UserTypesAnyISBN
    \/ ClickISBNLookup
    \/ EnterISBNLookup
    \/ ISBNLookupAnswered
    \/ DuplicatePromptAnswered

\* fetch settles: every awaited lookup is answered or fails; and confirm()
\* returns: the page does nothing else until the user has answered the prompt
SpecButton ==
    /\ InitButton
    /\ [][NextButton]_vars
    /\ WF_vars(ISBNLookupAnswered)
    /\ WF_vars(DuplicatePromptAnswered)

\* C24: a lookup is issued only for an input that is not empty and that
\* validateISBN accepts, and with the button disabled; the button becomes
\* disabled only as a lookup is issued; every answer to a lookup (a book, no
\* book, an error) enables the button or opens the duplicate prompt, and every
\* answer to the prompt of a manual lookup enables it; and a disabled button is
\* eventually enabled.
C24_ButtonDisabledAndReenabled ==
    /\ [][Len(lookups') > Len(lookups) =>
            /\ isbnLookupBtnDisabled'
            /\ Truthy(Trim(isbnInput))
            /\ validateISBN(Trim(isbnInput)).valid]_vars
    /\ [][~isbnLookupBtnDisabled /\ isbnLookupBtnDisabled' =>
            Len(lookups') > Len(lookups)]_vars
    /\ [][\A k \in 1..Len(lookups) : \A reply \in Replies :
            ISBNLookupReturns(k, reply) =>
                \/ ~isbnLookupBtnDisabled'
                \/ prompt' # <<>> /\ reply.kind = "found"]_vars
    /\ [][\A answer \in BOOLEAN, quotaOk \in BOOLEAN :
            (prompt # <<>> /\ prompt[1].flow = "isbn"
                /\ ConfirmAnswered(answer, quotaOk))
            => ~isbnLookupBtnDisabled']_vars
    /\ (isbnLookupBtnDisabled ~> ~isbnLookupBtnDisabled)

\* C24 happens: a manual lookup has filled the form from the book it found,
\* nothing is awaited, and the button is enabled
C24_Witness ==
    /\ form.bookTitle # EmptyString
    /\ lookups = <<>>
    /\ prompt = <<>>
    /\ isbnInput = EmptyString
    /\ ~isbnLookupBtnDisabled

====
